---- MODULE Spec2Model ----
(***************************************************************************)
(* Model of the NVD ingestion pipeline of ingest_cves.py: window planning, *)
(* paginated retrieval with retry, the configuration-tree resolver, the    *)
(* per-page transactional upsert, the sync checkpoint and the job ledger.  *)
(*                                                                         *)
(* Instants are whole hours counted from 2024-01-01T00:00Z (datetime       *)
(* values of the code, at hour granularity).  Strings that the code        *)
(* tokenizes character by character (CPE criteria) are sequences of        *)
(* one-character strings.                                                  *)
(***************************************************************************)
EXTENDS Integers, Sequences, FiniteSets, TLC

\* optional values (Python None / SQL NULL): the empty sequence, or <<x>>
Null == << >>

Some(x) == <<x>>

(***************************************************************************)
(* Calendar arithmetic (datetime, timedelta)                               *)
(***************************************************************************)
HoursPerDay == 24

OverlapHours == 1

IsLeap(y) == (y % 4 = 0 /\ y % 100 # 0) \/ (y % 400 = 0)

DaysBeforeYear(y) ==
    (y - 1) * 365 + ((y - 1) \div 4) - ((y - 1) \div 100) + ((y - 1) \div 400)

DaysInMonth(y, m) ==
    IF m = 2 THEN (IF IsLeap(y) THEN 29 ELSE 28)
    ELSE IF m \in {4, 6, 9, 11} THEN 30 ELSE 31

\* days of a non-leap year before the first of each month
DaysBeforeMonthTable == <<0, 31, 59, 90, 120, 151, 181, 212, 243, 273, 304, 334>>

DaysBeforeMonth(y, m) ==
    DaysBeforeMonthTable[m] + (IF m > 2 /\ IsLeap(y) THEN 1 ELSE 0)

\* proleptic ordinal of 2024-01-01
EpochOrdinal == DaysBeforeYear(2024) + 1

ValidDate(y, m, d) == m \in 1..12 /\ d \in 1..DaysInMonth(y, m)

FromCivil(y, m, d, h) ==
    (DaysBeforeYear(y) + DaysBeforeMonth(y, m) + d - EpochOrdinal) * HoursPerDay + h

\* the year holding ordinal n, searched downwards from the estimate g
RECURSIVE YearOfOrdinal(_, _)
YearOfOrdinal(n, g) == IF DaysBeforeYear(g) < n THEN g ELSE YearOfOrdinal(n, g - 1)

\* the month of year y holding its day-of-year doy, searched downwards from m
RECURSIVE MonthOfDay(_, _, _)
MonthOfDay(y, doy, m) == IF DaysBeforeMonth(y, m) < doy THEN m ELSE MonthOfDay(y, doy, m - 1)

CivilOfDay(y, doy, m, hour) ==
    [year |-> y, month |-> m, day |-> doy - DaysBeforeMonth(y, m), hour |-> hour]

CivilOfYear(n, y, hour) ==
    CivilOfDay(y, n - DaysBeforeYear(y), MonthOfDay(y, n - DaysBeforeYear(y), 12), hour)

CivilOfOrdinal(n, hour) == CivilOfYear(n, YearOfOrdinal(n, (n \div 365) + 1), hour)

ToCivil(t) == CivilOfOrdinal(EpochOrdinal + (t \div HoursPerDay), t % HoursPerDay)

\* mutant: years of 365 days are subtracted
subtract_years_safe_Days(value, years) == value - years * 365 * HoursPerDay

\* value.replace(year=value.year - years); on ValueError, Feb 28 of that year
subtract_years_safe(value, years) ==
    LET c == ToCivil(value)
    IN  IF ValidDate(c.year - years, c.month, c.day)
        THEN FromCivil(c.year - years, c.month, c.day, c.hour)
        ELSE FromCivil(c.year - years, 2, 28, c.hour)

Min(a, b) == IF a <= b THEN a ELSE b

\* mutant: the window end is not clamped to end
ChunkWindowEnd_Unclamped(cursor, end, days) == cursor + days * HoursPerDay

\* one step of the chunk_ranges generator from `cursor`: the window it yields
ChunkWindowEnd(cursor, end, days) == Min(cursor + days * HoursPerDay, end)

\* the whole sequence chunk_ranges(start, end, days) yields (days >= 1)
RECURSIVE chunk_ranges(_, _, _)
chunk_ranges(start, end, days) ==
    IF start < end
    THEN <<  <<start, ChunkWindowEnd(start, end, days)>>  >>
         \o chunk_ranges(ChunkWindowEnd(start, end, days), end, days)
    ELSE << >>

(***************************************************************************)
(* CPE 2.3 tokenizer and parser                                            *)
(***************************************************************************)
Whitespace == {" ", "\t", "\n", "\r"}

UpperLetters ==
    <<"A", "B", "C", "D", "E", "F", "G", "H", "I", "J", "K", "L", "M",
      "N", "O", "P", "Q", "R", "S", "T", "U", "V", "W", "X", "Y", "Z">>

LowerLetters ==
    <<"a", "b", "c", "d", "e", "f", "g", "h", "i", "j", "k", "l", "m",
      "n", "o", "p", "q", "r", "s", "t", "u", "v", "w", "x", "y", "z">>

LowerChar(c) ==
    IF \E i \in 1..Len(UpperLetters) : UpperLetters[i] = c
    THEN LowerLetters[CHOOSE i \in 1..Len(UpperLetters) : UpperLetters[i] = c]
    ELSE c

Lower(s) == [i \in 1..Len(s) |-> LowerChar(s[i])]

RECURSIVE LStrip(_)
LStrip(s) == IF s # << >> /\ Head(s) \in Whitespace THEN LStrip(Tail(s)) ELSE s

RECURSIVE RStrip(_)
RStrip(s) ==
    IF s # << >> /\ s[Len(s)] \in Whitespace
    THEN RStrip(SubSeq(s, 1, Len(s) - 1)) ELSE s

Strip(s) == RStrip(LStrip(s))

\* mutant: the backslash is an ordinary character and every colon separates
RECURSIVE SplitLoop_NoEscape(_, _, _, _, _)
SplitLoop_NoEscape(criteria, i, parts, current, escaped) ==
    IF i > Len(criteria) THEN Append(parts, current)
    ELSE LET ch == criteria[i] IN
         IF ch = ":" THEN SplitLoop_NoEscape(criteria, i + 1, Append(parts, current), << >>, FALSE)
         ELSE SplitLoop_NoEscape(criteria, i + 1, parts, Append(current, ch), FALSE)

\* the loop of split_cpe23 over criteria[i..]; parts, current, escaped as in the code
RECURSIVE SplitLoop(_, _, _, _, _)
SplitLoop(criteria, i, parts, current, escaped) ==
    IF i > Len(criteria) THEN Append(parts, current)
    ELSE LET ch == criteria[i] IN
         IF escaped THEN SplitLoop(criteria, i + 1, parts, Append(current, ch), FALSE)
         ELSE IF ch = "\\" THEN SplitLoop(criteria, i + 1, parts, current, TRUE)
         ELSE IF ch = ":" THEN SplitLoop(criteria, i + 1, Append(parts, current), << >>, FALSE)
         ELSE SplitLoop(criteria, i + 1, parts, Append(current, ch), FALSE)

split_cpe23(criteria) == SplitLoop(criteria, 1, << >>, << >>, FALSE)

CpePrefix == <<"c", "p", "e", ":", "2", ".", "3", ":">>

StartsWith(s, p) == Len(s) >= Len(p) /\ SubSeq(s, 1, Len(p)) = p

\* mutant: the prefix cpe:2.3: is not required
parse_cpe23_AnyPrefix(criteria) ==
    LET parts == split_cpe23(criteria) IN
    IF Len(parts) < 6 THEN Null
    ELSE LET part    == Strip(parts[3])
             vendor  == Lower(Strip(parts[4]))
             product == Lower(Strip(parts[5]))
             version == Strip(parts[6])
         IN  IF part = << >> \/ vendor = << >> \/ product = << >> THEN Null
             ELSE <<part, vendor, product, version>>

\* Null, or the (part, vendor, product, version) tuple
parse_cpe23(criteria) ==
    IF ~StartsWith(criteria, CpePrefix) THEN Null
    ELSE LET parts == split_cpe23(criteria) IN
         IF Len(parts) < 6 THEN Null
         ELSE LET part    == Strip(parts[3])
                  vendor  == Lower(Strip(parts[4]))
                  product == Lower(Strip(parts[5]))
                  version == Strip(parts[6])
              IN  IF part = << >> \/ vendor = << >> \/ product = << >> THEN Null
                  ELSE <<part, vendor, product, version>>

(***************************************************************************)
(* Configuration-tree resolver                                             *)
(***************************************************************************)
\* index of the entry keyed by criteria in the insertion-ordered dict, 0 if absent
DictIndex(dict, criteria) ==
    IF \E i \in 1..Len(dict) : dict[i].criteria = criteria
    THEN CHOOSE i \in 1..Len(dict) : dict[i].criteria = criteria
    ELSE 0

\* mutant: a repeated identifier keeps the flag of its first occurrence
MergeMatch_FirstWins(dict, match) ==
    LET criteria == Strip(match.criteria)
        cpe      == parse_cpe23(criteria)
        k        == DictIndex(dict, criteria)
    IN  IF cpe = Null THEN dict
        ELSE IF k = 0
        THEN Append(dict, [part |-> cpe[1], vendor |-> cpe[2], product |-> cpe[3],
                           version |-> cpe[4], criteria |-> criteria,
                           vulnerable |-> match.vulnerable])
        ELSE dict

\* mutant: an invalid identifier discards what was collected before it
MergeMatch_InvalidDiscards(dict, match) ==
    LET criteria == Strip(match.criteria)
        cpe      == parse_cpe23(criteria)
        k        == DictIndex(dict, criteria)
    IN  IF cpe = Null THEN << >>
        ELSE IF k = 0
        THEN Append(dict, [part |-> cpe[1], vendor |-> cpe[2], product |-> cpe[3],
                           version |-> cpe[4], criteria |-> criteria,
                           vulnerable |-> match.vulnerable])
        ELSE [dict EXCEPT ![k].vulnerable = dict[k].vulnerable \/ match.vulnerable]

\* the body of the loop over cpeMatch for one match entry
MergeMatch(dict, match) ==
    LET criteria == Strip(match.criteria)
        cpe      == parse_cpe23(criteria)
        k        == DictIndex(dict, criteria)
    IN  IF cpe = Null THEN dict
        ELSE IF k = 0
        THEN Append(dict, [part |-> cpe[1], vendor |-> cpe[2], product |-> cpe[3],
                           version |-> cpe[4], criteria |-> criteria,
                           vulnerable |-> match.vulnerable])
        ELSE [dict EXCEPT ![k].vulnerable = dict[k].vulnerable \/ match.vulnerable]

RECURSIVE MergeMatches(_, _)
MergeMatches(dict, matches) ==
    IF matches = << >> THEN dict
    ELSE MergeMatches(MergeMatch(dict, Head(matches)), Tail(matches))

\* mutant: the children of a node are not visited
walk_node_SkipsChildren(dict, node) == MergeMatches(dict, node.cpeMatch)

RECURSIVE walk_node(_, _)
RECURSIVE WalkNodes(_, _)
walk_node(dict, node) == WalkNodes(MergeMatches(dict, node.cpeMatch), node.children)

WalkNodes(dict, nodes) ==
    IF nodes = << >> THEN dict
    ELSE WalkNodes(walk_node(dict, Head(nodes)), Tail(nodes))

RECURSIVE WalkConfigs(_, _)
WalkConfigs(dict, configurations) ==
    IF configurations = << >> THEN dict
    ELSE WalkConfigs(WalkNodes(dict, Head(configurations).nodes), Tail(configurations))

\* list(parsed_by_criteria.values())
extract_cpe_matches(cve) == WalkConfigs(<< >>, cve.configurations)

(***************************************************************************)
(* utils/backfill_cpe_from_raw.py: its own split_cpe23, parse_cpe23 and    *)
(* extract_cpe_matches                                                     *)
(***************************************************************************)
RECURSIVE backfill_SplitLoop(_, _, _, _, _)
backfill_SplitLoop(criteria, i, parts, current, escaped) ==
    IF i > Len(criteria) THEN Append(parts, current)
    ELSE LET ch == criteria[i] IN
         IF escaped THEN backfill_SplitLoop(criteria, i + 1, parts, Append(current, ch), FALSE)
         ELSE IF ch = "\\" THEN backfill_SplitLoop(criteria, i + 1, parts, current, TRUE)
         ELSE IF ch = ":"
              THEN backfill_SplitLoop(criteria, i + 1, Append(parts, current), << >>, FALSE)
         ELSE backfill_SplitLoop(criteria, i + 1, parts, Append(current, ch), FALSE)

backfill_split_cpe23(criteria) == backfill_SplitLoop(criteria, 1, << >>, << >>, FALSE)

backfill_parse_cpe23(criteria) ==
    IF ~StartsWith(criteria, CpePrefix) THEN Null
    ELSE LET parts == backfill_split_cpe23(criteria) IN
         IF Len(parts) < 6 THEN Null
         ELSE LET part    == Strip(parts[3])
                  vendor  == Lower(Strip(parts[4]))
                  product == Lower(Strip(parts[5]))
                  version == Strip(parts[6])
              IN  IF part = << >> \/ vendor = << >> \/ product = << >> THEN Null
                  ELSE <<part, vendor, product, version>>

\* mutant: the copy keeps the identifier as the document spells it
backfill_MergeMatch_Unstripped(dict, match) ==
    LET criteria == match.criteria
        cpe      == backfill_parse_cpe23(criteria)
        k        == DictIndex(dict, criteria)
    IN  IF cpe = Null THEN dict
        ELSE IF k = 0
        THEN Append(dict, [part |-> cpe[1], vendor |-> cpe[2], product |-> cpe[3],
                           version |-> cpe[4], criteria |-> criteria,
                           vulnerable |-> match.vulnerable])
        ELSE [dict EXCEPT ![k].vulnerable = dict[k].vulnerable \/ match.vulnerable]

\* the body of the copy's loop over cpeMatch for one match entry
backfill_MergeMatch(dict, match) ==
    LET criteria == Strip(match.criteria)
        cpe      == backfill_parse_cpe23(criteria)
        k        == DictIndex(dict, criteria)
    IN  IF cpe = Null THEN dict
        ELSE IF k = 0
        THEN Append(dict, [part |-> cpe[1], vendor |-> cpe[2], product |-> cpe[3],
                           version |-> cpe[4], criteria |-> criteria,
                           vulnerable |-> match.vulnerable])
        ELSE [dict EXCEPT ![k].vulnerable = dict[k].vulnerable \/ match.vulnerable]

RECURSIVE backfill_MergeMatches(_, _)
backfill_MergeMatches(dict, matches) ==
    IF matches = << >> THEN dict
    ELSE backfill_MergeMatches(backfill_MergeMatch(dict, Head(matches)), Tail(matches))

RECURSIVE backfill_walk_node(_, _)
RECURSIVE backfill_WalkNodes(_, _)
backfill_walk_node(dict, node) ==
    backfill_WalkNodes(backfill_MergeMatches(dict, node.cpeMatch), node.children)

backfill_WalkNodes(dict, nodes) ==
    IF nodes = << >> THEN dict
    ELSE backfill_WalkNodes(backfill_walk_node(dict, Head(nodes)), Tail(nodes))

RECURSIVE backfill_WalkConfigs(_, _)
backfill_WalkConfigs(dict, configurations) ==
    IF configurations = << >> THEN dict
    ELSE backfill_WalkConfigs(backfill_WalkNodes(dict, Head(configurations).nodes),
                              Tail(configurations))

\* list(parsed_by_criteria.values())
backfill_extract_cpe_matches(cve) == backfill_WalkConfigs(<< >>, cve.configurations)

(***************************************************************************)
(* extract_cvss.  metrics maps each bucket key to its list of metrics; a   *)
(* missing key and an empty list are the same value (`or []`).  Scores are *)
(* in tenths.                                                              *)
(***************************************************************************)
\* mutant: the buckets are scanned oldest version first
BucketOrder_OldestFirst ==
    << [key |-> "cvssMetricV2", version |-> "2.0"],
       [key |-> "cvssMetricV30", version |-> "3.0"],
       [key |-> "cvssMetricV31", version |-> "3.1"] >>

BucketOrder ==
    << [key |-> "cvssMetricV31", version |-> "3.1"],
       [key |-> "cvssMetricV30", version |-> "3.0"],
       [key |-> "cvssMetricV2", version |-> "2.0"] >>

\* a or b on optional strings: a unless it is None or ""
Or(a, b) == IF a = Null \/ a = Some("") THEN b ELSE a

\* the loop over the buckets from the k-th on
RECURSIVE CvssScan(_, _)
CvssScan(metrics, k) ==
    IF k > Len(BucketOrder) THEN <<Null, Null, Null>>
    ELSE LET items == metrics[BucketOrder[k].key] IN
         IF items = << >> THEN CvssScan(metrics, k + 1)
         ELSE LET metric    == items[1]
                  cvss_data == metric.cvssData
                  score     == cvss_data.baseScore
                  severity  == Or(cvss_data.baseSeverity, metric.baseSeverity)
              IN  <<score, Some(BucketOrder[k].version), severity>>

extract_cvss(cve) == CvssScan(cve.metrics, 1)

(***************************************************************************)
(* extract_english_description_from_cve.  An entry of the description list *)
(* is a record of its language tag and its value (Null: no "value" key).   *)
(***************************************************************************)
\* mutant: the first entry of the list, whatever its language
DescriptionScan_FirstEntry(descriptions, k) ==
    IF k > Len(descriptions) THEN << >>
    ELSE IF descriptions[k].value = Null THEN << >> ELSE descriptions[k].value[1]

\* for desc in descriptions[k..]: if desc.get("lang") == "en": return str(desc.get("value", ""))
RECURSIVE DescriptionScan(_, _)
DescriptionScan(descriptions, k) ==
    IF k > Len(descriptions) THEN << >>
    ELSE IF descriptions[k].lang = "en"
         THEN (IF descriptions[k].value = Null THEN << >> ELSE descriptions[k].value[1])
         ELSE DescriptionScan(descriptions, k + 1)

extract_english_description_from_cve(cve) == DescriptionScan(cve.descriptions, 1)

(***************************************************************************)
(* Timestamps on the wire                                                  *)
(***************************************************************************)
\* value.astimezone(utc).strftime(...): the civil fields of the instant
to_nvd_ts(value) == ToCivil(value)

\* datetime.fromisoformat(value).astimezone(utc): the instant of the civil fields
parse_nvd_ts(value) == FromCivil(value.year, value.month, value.day, value.hour)

(***************************************************************************)
(* Source documents.  A document is the "cve" object of one item of the    *)
(* feed; id "" stands for a missing id, Null for a missing timestamp key.  *)
(***************************************************************************)
Match(criteria, vulnerable) == [criteria |-> criteria, vulnerable |-> vulnerable]

Node(cpeMatch, children) == [cpeMatch |-> cpeMatch, children |-> children]

CritA == CpePrefix \o <<"a", ":", "V", "n", ":", "P", "r", ":", "1">>

CritB == CpePrefix \o <<"o", ":", "v", "n", ":", "q", ":", "2">>

\* empty vendor field: not a valid identifier
CritBad == CpePrefix \o <<"a", ":", ":", "p", ":", "1">>

\* A occurs twice (not vulnerable, then vulnerable), B below a child node
CfgFull ==
    << [nodes |-> << Node(<<Match(CritA, FALSE)>>,
                          << Node(<<Match(CritB, TRUE), Match(CritBad, TRUE)>>, << >>) >>) >>],
       [nodes |-> << Node(<<Match(CritA, TRUE)>>, << >>) >>] >>

\* a later version of the same document: B dropped
CfgDropped == << [nodes |-> << Node(<<Match(CritA, TRUE)>>, << >>) >>] >>

CfgEmpty == << >>

Doc(id, published, lastModified, configurations) ==
    [id |-> id, published |-> published, lastModified |-> lastModified,
     configurations |-> configurations]

\* 2024-02-29T12:00Z, the instant of the first invocation
FirstNow == FromCivil(2024, 2, 29, 12)

Doc1 == Doc("CVE-1", Some(to_nvd_ts(FirstNow - 5000)), Some(to_nvd_ts(FirstNow - 58)), CfgFull)

Doc2 == Doc("CVE-2", Some(to_nvd_ts(FirstNow - 40)), Some(to_nvd_ts(FirstNow - 28)), CfgDropped)

Doc3 == Doc("CVE-3", Some(to_nvd_ts(FirstNow - 30)), Some(to_nvd_ts(FirstNow - 23)), CfgFull)

\* no "published" key
DocNoTs == Doc("CVE-3", Null, Some(to_nvd_ts(FirstNow - 23)), CfgFull)

\* no "id" key
DocNoId == Doc("", Some(to_nvd_ts(FirstNow - 30)), Some(to_nvd_ts(FirstNow - 23)), CfgFull)

FeedChoices ==
    { <<Doc1, Doc2, Doc3>>, <<Doc1, Doc2, Doc2>>, <<Doc1, Doc2, DocNoTs>>, <<Doc1, Doc2, DocNoId>> }

\* the configuration of the next revision the source publishes of a document
NextCfg(configurations) == IF configurations = CfgFull THEN CfgDropped ELSE CfgEmpty

(***************************************************************************)
(* The source feed (NVD API): the answer to one page request               *)
(***************************************************************************)
\* mutant: both date-bound pairs are sent in either mode
RequestParams_BothPairs(settings, start_index, start, end, mode) ==
    [resultsPerPage |-> settings.nvd_results_per_page, startIndex |-> start_index,
     pubStartDate |-> to_nvd_ts(start), pubEndDate |-> to_nvd_ts(end),
     lastModStartDate |-> to_nvd_ts(start), lastModEndDate |-> to_nvd_ts(end)]

RequestParams(settings, start_index, start, end, mode) ==
    IF mode = "initial"
    THEN [resultsPerPage |-> settings.nvd_results_per_page, startIndex |-> start_index,
          pubStartDate |-> to_nvd_ts(start), pubEndDate |-> to_nvd_ts(end)]
    ELSE [resultsPerPage |-> settings.nvd_results_per_page, startIndex |-> start_index,
          lastModStartDate |-> to_nvd_ts(start), lastModEndDate |-> to_nvd_ts(end)]

InRange(field, lo, hi) ==
    field # Null /\ parse_nvd_ts(lo) <= parse_nvd_ts(field[1])
                 /\ parse_nvd_ts(field[1]) <= parse_nvd_ts(hi)

Selected(doc, params) ==
    /\ "pubStartDate" \in DOMAIN params =>
           InRange(doc.published, params.pubStartDate, params.pubEndDate)
    /\ "lastModStartDate" \in DOMAIN params =>
           InRange(doc.lastModified, params.lastModStartDate, params.lastModEndDate)

RECURSIVE Filter(_, _)
Filter(docs, params) ==
    IF docs = << >> THEN << >>
    ELSE (IF Selected(Head(docs), params) THEN <<Head(docs)>> ELSE << >>)
         \o Filter(Tail(docs), params)

\* the JSON payload of a 200 response
Payload(docs, params) ==
    LET all == Filter(docs, params)
        lo  == params.startIndex + 1
        hi  == Min(params.startIndex + params.resultsPerPage, Len(all))
    IN  [vulnerabilities |-> SubSeq(all, lo, hi), totalResults |-> Len(all)]

(***************************************************************************)
(* Persistence: the statements of upsert_cves on the tables cve, cve_cpe   *)
(***************************************************************************)
CveRow(cve, now) ==
    [id |-> cve.id,
     published_at |-> parse_nvd_ts(cve.published[1]),
     last_modified_at |-> parse_nvd_ts(cve.lastModified[1]),
     raw |-> cve,
     updated_at |-> now]

\* mutant: a plain INSERT, without the ON CONFLICT (id) clause
InsertCve_NoConflictClause(table, row) == table \cup {row}

\* INSERT INTO cve ... ON CONFLICT (id) DO UPDATE SET ...
InsertCveOnConflict(table, row) == {r \in table : r.id # row.id} \cup {row}

\* mutant: the DELETE statement has no WHERE clause
DeleteCpe_AllRows(table, cve_id) == {}

\* mutant: the DELETE statement is missing
DeleteCpe_Missing(table, cve_id) == table

\* DELETE FROM cve_cpe WHERE cve_id = %s
DeleteCpe(table, cve_id) == {r \in table : r.cve_id # cve_id}

CpeRows(cve_id, cpe_rows) ==
    { [cve_id |-> cve_id, part |-> cpe_rows[i].part, vendor |-> cpe_rows[i].vendor,
       product |-> cpe_rows[i].product, version |-> cpe_rows[i].version,
       criteria |-> cpe_rows[i].criteria, vulnerable |-> cpe_rows[i].vulnerable]
      : i \in 1..Len(cpe_rows) }

\* INSERT INTO cve_cpe ... ON CONFLICT (cve_id, criteria) DO UPDATE SET ...
InsertCpeOnConflict(table, rows) ==
    {r \in table : ~\E n \in rows : n.cve_id = r.cve_id /\ n.criteria = r.criteria}
    \cup rows

\* the statements of one loop iteration of upsert_cves, up to and excluding
\* the statement `failing` ("none": all of them), applied to the open transaction
UpsertStatements(txn, cve, now, failing) ==
    LET t1 == IF failing = "upsert" THEN txn
              ELSE [txn EXCEPT !.cve = InsertCveOnConflict(@, CveRow(cve, now))]
        t2 == IF failing \in {"upsert", "delete"} THEN t1
              ELSE [t1 EXCEPT !.cve_cpe = DeleteCpe(@, cve.id)]
        t3 == IF failing \in {"upsert", "delete", "insert"} THEN t2
              ELSE [t2 EXCEPT !.cve_cpe =
                        InsertCpeOnConflict(@, CpeRows(cve.id, extract_cpe_matches(cve)))]
    IN  t3

MissingTimestamp(cve) == cve.published = Null \/ cve.lastModified = Null

\* SELECT value_ts FROM ingest_checkpoint WHERE key = 'daily_last_modified_sync'
get_checkpoint(table) ==
    IF \E r \in table : r.key = "daily_last_modified_sync"
    THEN Some((CHOOSE r \in table : r.key = "daily_last_modified_sync").value_ts)
    ELSE Null

\* mutant: the window start (end minus the overlap) is stored instead of the end
set_checkpoint_Overlap(table, ts) ==
    {r \in table : r.key # "daily_last_modified_sync"}
    \cup {[key |-> "daily_last_modified_sync", value_ts |-> ts - OverlapHours]}

\* INSERT INTO ingest_checkpoint ... ON CONFLICT (key) DO UPDATE SET value_ts = ...
set_checkpoint(table, ts) ==
    {r \in table : r.key # "daily_last_modified_sync"}
    \cup {[key |-> "daily_last_modified_sync", value_ts |-> ts]}

\* mutant: the job records the first day of the span only
create_job_log_FirstDay(job_type, start, end) ==
    [job_type |-> job_type, window_start |-> start, window_end |-> Min(start + HoursPerDay, end),
     status |-> "running", requested_count |-> Null, upserted_count |-> Null,
     failed_count |-> Null, error_message |-> Null, finished_at |-> Null]

\* the row create_job_log inserts
create_job_log(job_type, start, end) ==
    [job_type |-> job_type, window_start |-> start, window_end |-> end,
     status |-> "running", requested_count |-> Null, upserted_count |-> Null,
     failed_count |-> Null, error_message |-> Null, finished_at |-> Null]

\* UPDATE ingest_job_log SET ... WHERE id = %s
finish_job_log(log, job_id, status, requested_count, upserted_count, failed_count, error_message, now) ==
    [log EXCEPT ![job_id] =
        [@ EXCEPT !.status = status,
                  !.requested_count = Some(requested_count),
                  !.upserted_count = Some(upserted_count),
                  !.failed_count = Some(failed_count),
                  !.error_message = error_message,
                  !.finished_at = Some(now)]]

(***************************************************************************)
(* Bounds and inputs                                                       *)
(***************************************************************************)
\* injected faults (failed connection, statement, commit, HTTP request)
MaxFaults == 1

\* revisions the source publishes between invocations
MaxUpdates == 1

\* the invocations of the program: the hours elapsed before each of them
Schedule == <<30, 30>>

InitialSettings ==
    { [initial_lookback_years |-> 1, incremental_window_days |-> 200,
       nvd_results_per_page |-> 1] }

IncrementalSettings ==
    { [initial_lookback_years |-> 1, incremental_window_days |-> 1,
       nvd_results_per_page |-> 2] }

RetryableStatus == {429, 500, 502, 503, 504}

\* statuses the model lets the source answer with
StatusChoices == {200, 503, 404}

(***************************************************************************)
(* State                                                                   *)
(***************************************************************************)
VARIABLES
    clock,              \* wall clock (what utc_now() returns)
    feed,               \* the documents the source holds
    srcUpdates,         \* revisions published so far
    faults,             \* faults injected so far
    cve,                \* committed table cve
    cve_cpe,            \* committed table cve_cpe
    ingest_checkpoint,  \* committed table ingest_checkpoint
    ingest_job_log,     \* committed table ingest_job_log, indexed by id
    txn,                \* the transaction of fetch_window's open connection
    pc,                 \* position of the running invocation
    run,                \* locals of run_initial / run_incremental
    win,                \* locals of fetch_window and request_with_retry
    page,               \* locals of upsert_cves
    exc,                \* the exception in flight / bound by `except`
    outcome,            \* how the last invocation ended, and with which exception
    h,                  \* history, read by the properties only
    fn                  \* a function driven on its own: arguments, position, results

vars == <<clock, feed, srcUpdates, faults, cve, cve_cpe, ingest_checkpoint,
          ingest_job_log, txn, pc, run, win, page, exc, outcome, h, fn>>

\* the variables of an invocation of the program
program == <<clock, feed, srcUpdates, faults, cve, cve_cpe, ingest_checkpoint,
             ingest_job_log, txn, pc, run, win, page, exc, outcome, h>>

env == <<feed, srcUpdates>>

tables == <<cve, cve_cpe, ingest_checkpoint, ingest_job_log>>

NoTxn == [open |-> FALSE, cve |-> {}, cve_cpe |-> {}]

NoRun ==
    [mode |-> "", settings |-> [initial_lookback_years |-> 0, incremental_window_days |-> 0,
                                nvd_results_per_page |-> 0],
     start |-> 0, end |-> 0, job_id |-> 0, total_requested |-> 0, total_upserted |-> 0,
     cursor |-> 0]

NoWin == [start |-> 0, end |-> 0, start_index |-> 0, total_requested |-> 0,
          upserted |-> 0, attempt |-> 0]

NoPage == [vulnerabilities |-> << >>, total_results |-> 0, idx |-> 0, count |-> 0]

Ids == {"CVE-1", "CVE-2", "CVE-3"}

\* statuses received (0: no response), seconds slept, and how the call ended
NoCall == [statuses |-> << >>, sleeps |-> << >>, result |-> "pending"]

Snapshot == [cve |-> cve, cve_cpe |-> cve_cpe, checkpoint |-> ingest_checkpoint, feed |-> feed]

NoHistory ==
    [runs |-> 0,                 \* invocations begun
     begin |-> Snapshot,         \* tables and feed when the current invocation began
     prev |-> Snapshot,          \* the same for the invocation before it
     prevFailed |-> FALSE,       \* the invocation before was incremental and raised
     finishCalls |-> 0,          \* calls of finish_job_log for the current job
     statusWrites |-> 0,         \* committed writes of a terminal status to that job
     window |-> 0,               \* index of the window being fetched
     failedWindow |-> 0,         \* index of the window whose processing raised
     winCounts |-> << >>,        \* counts returned by the completed windows
     pageStart |-> [cve |-> cve, cve_cpe |-> cve_cpe],  \* tables when the page began
     aborted |-> FALSE,          \* the last page transaction was aborted
     abortedDirty |-> FALSE,     \* ... and held uncommitted changes
     cpReads |-> 0, cpWrites |-> 0,
     call |-> NoCall,            \* the latest call of request_with_retry
     fatal |-> FALSE,            \* a call of request_with_retry raised in this invocation
     received |-> 0,             \* documents received from the source in this invocation
     seen |-> {},                \* ... as a set
     committed |-> 0,            \* documents whose upsert was committed in this invocation
     spans |-> << >>,            \* the windows begun in this invocation
     pages |-> << >>,            \* the pages received for the latest window
     latest |-> [i \in Ids |-> Null],   \* last committed document per id
     ingests |-> [i \in Ids |-> 0],    \* committed upserts per id
     repeats |-> [i \in Ids |-> 0]]    \* ... of which the last ones of the same document

NoFn == [args |-> [start |-> 0, end |-> 0, days |-> 0], cursor |-> 0,
         yielded |-> << >>, done |-> TRUE]

Init ==
    /\ fn = NoFn
    /\ clock = FirstNow - Schedule[1]
    /\ feed \in FeedChoices
    /\ srcUpdates = 0
    /\ faults = 0
    /\ cve = {}
    /\ cve_cpe = {}
    /\ ingest_checkpoint \in { {}, set_checkpoint({}, FirstNow - 60) }
    /\ ingest_job_log = << >>
    /\ txn = NoTxn
    /\ pc = "idle"
    /\ run = NoRun
    /\ win = NoWin
    /\ page = NoPage
    /\ exc = ""
    /\ outcome = [kind |-> "none", exc |-> ""]
    /\ h = NoHistory

Idle == pc \in {"idle", "done"}

CanFault == faults < MaxFaults

(***************************************************************************)
(* Environment: the source publishes a new revision of a document          *)
(***************************************************************************)
SourceUpdate(i) ==
    /\ Idle
    /\ srcUpdates < MaxUpdates
    /\ feed[i].configurations # CfgEmpty
    /\ feed' = [feed EXCEPT ![i] = [@ EXCEPT !.lastModified = Some(to_nvd_ts(clock)),
                                             !.configurations = NextCfg(@)]]
    /\ srcUpdates' = srcUpdates + 1
    /\ UNCHANGED <<fn, clock, faults, tables, txn, pc, run, win, page, exc, outcome, h>>

(***************************************************************************)
(* run_initial / run_incremental up to the try block                       *)
(***************************************************************************)
BeginHistory(reads) ==
    [h EXCEPT !.runs = @ + 1,
              !.prev = h.begin,
              !.prevFailed = (run.mode = "incremental" /\ outcome.kind = "raised"),
              !.begin = Snapshot,
              !.finishCalls = 0, !.statusWrites = 0, !.window = 0, !.failedWindow = 0,
              !.winCounts = << >>, !.aborted = FALSE, !.abortedDirty = FALSE,
              !.pageStart = [cve |-> cve, cve_cpe |-> cve_cpe],
              !.cpReads = @ + reads,
              !.call = NoCall, !.fatal = FALSE, !.received = 0, !.seen = {},
              !.committed = 0, !.spans = << >>, !.pages = << >>]

NewRun(mode, settings, start, end) ==
    [mode |-> mode, settings |-> settings, start |-> start, end |-> end,
     job_id |-> Len(ingest_job_log) + 1, total_requested |-> 0, total_upserted |-> 0,
     cursor |-> start]

RunInitialBegin(settings) ==
    LET end   == clock + Schedule[h.runs + 1]
        start == subtract_years_safe(end, settings.initial_lookback_years)
    IN  /\ Idle
        /\ h.runs < Len(Schedule)
        /\ clock' = end
        /\ ingest_job_log' = Append(ingest_job_log, create_job_log("initial_lookback", start, end))
        /\ run' = NewRun("initial", settings, start, end)
        /\ pc' = "windows"
        /\ win' = NoWin /\ page' = NoPage /\ exc' = ""
        /\ outcome' = [kind |-> "none", exc |-> ""]
        /\ h' = BeginHistory(0)
        /\ UNCHANGED <<fn, env, faults, cve, cve_cpe, ingest_checkpoint, txn>>

\* mutant: the span starts at the checkpoint itself
IncrementalStart_NoOverlap(table, now, settings) ==
    LET stored == get_checkpoint(table)
    IN  IF stored = Null
        THEN now - settings.incremental_window_days * HoursPerDay
        ELSE stored[1]

\* start of the span of an incremental run: checkpoint (or now minus one window) minus 1 hour
IncrementalStart(table, now, settings) ==
    LET stored     == get_checkpoint(table)
        checkpoint == IF stored = Null
                      THEN now - settings.incremental_window_days * HoursPerDay
                      ELSE stored[1]
    IN  checkpoint - OverlapHours

RunIncrementalBegin(settings) ==
    LET now   == clock + Schedule[h.runs + 1]
        start == IncrementalStart(ingest_checkpoint, now, settings)
        end   == now
    IN  /\ Idle
        /\ h.runs < Len(Schedule)
        /\ clock' = now
        /\ ingest_job_log' = Append(ingest_job_log, create_job_log("daily_sync", start, end))
        /\ run' = NewRun("incremental", settings, start, end)
        /\ pc' = "windows"
        /\ win' = NoWin /\ page' = NoPage /\ exc' = ""
        /\ outcome' = [kind |-> "none", exc |-> ""]
        /\ h' = BeginHistory(1)
        /\ UNCHANGED <<fn, env, faults, cve, cve_cpe, ingest_checkpoint, txn>>

\* psycopg2.connect, get_checkpoint or create_job_log raises before the try
\* block is entered: no job row, the exception reaches the caller
RunBeginRaises(mode) ==
    /\ Idle
    /\ h.runs < Len(Schedule)
    /\ CanFault
    /\ faults' = faults + 1
    /\ clock' = clock + Schedule[h.runs + 1]
    /\ run' = [NoRun EXCEPT !.mode = mode]
    /\ pc' = "done"
    /\ win' = NoWin /\ page' = NoPage /\ exc' = ""
    /\ outcome' = [kind |-> "raised", exc |-> "OperationalError"]
    /\ h' = BeginHistory(0)
    /\ UNCHANGED <<fn, env, tables, txn>>

(***************************************************************************)
(* The window loop: chunk_ranges and fetch_window                          *)
(***************************************************************************)
\* the generator yields the next window; fetch_window opens its connection
FetchWindowBegin ==
    /\ pc = "windows"
    /\ run.cursor < run.end
    /\ win' = [start |-> run.cursor,
               end |-> ChunkWindowEnd(run.cursor, run.end, run.settings.incremental_window_days),
               start_index |-> 0, total_requested |-> 0, upserted |-> 0, attempt |-> 0]
    /\ txn' = [open |-> TRUE, cve |-> cve, cve_cpe |-> cve_cpe]
    /\ page' = NoPage
    /\ pc' = "request"
    /\ h' = [h EXCEPT !.window = @ + 1, !.aborted = FALSE,
                      !.pageStart = [cve |-> cve, cve_cpe |-> cve_cpe],
                      !.call = NoCall, !.pages = << >>,
                      !.spans = Append(@, <<run.cursor,
                                            ChunkWindowEnd(run.cursor, run.end,
                                                           run.settings.incremental_window_days)>>)]
    /\ UNCHANGED <<fn, clock, env, faults, tables, run, exc, outcome>>

\* psycopg2.connect raises in fetch_window, before its try block
FetchWindowConnectRaises ==
    /\ pc = "windows"
    /\ run.cursor < run.end
    /\ CanFault
    /\ faults' = faults + 1
    /\ exc' = "OperationalError"
    /\ pc' = "except"
    /\ h' = [h EXCEPT !.window = @ + 1, !.failedWindow = h.window + 1]
    /\ UNCHANGED <<fn, clock, env, tables, txn, run, win, page, outcome>>

\* fetch_window returns its counts (finally: conn.close()); the caller adds them
WindowReturns(requested, upserted, hist) ==
    /\ run' = [run EXCEPT !.total_requested = @ + requested,
                          !.total_upserted = @ + upserted,
                          !.cursor = win.end]
    /\ txn' = NoTxn
    /\ win' = NoWin
    /\ page' = NoPage
    /\ pc' = "windows"
    /\ h' = [hist EXCEPT !.winCounts =
                 Append(@, [requested |-> requested, upserted |-> upserted])]

\* requests.get answers 200: the page is read; an empty page ends the window
\* the history of one response (or of none: status 0) to requests.get
Responded(hist, status, slept, result) ==
    [hist EXCEPT !.call = [statuses |-> Append(hist.call.statuses, status),
                           sleeps |-> hist.call.sleeps \o slept,
                           result |-> result],
                 !.fatal = (result = "raised")]

RequestOk ==
    LET params  == RequestParams(run.settings, win.start_index, win.start, win.end, run.mode)
        payload == Payload(feed, params)
        docs    == payload.vulnerabilities
        hist    == [Responded(h, 200, << >>, "returned") EXCEPT
                        !.received = @ + Len(docs),
                        !.seen = @ \cup {docs[i] : i \in 1..Len(docs)},
                        !.pages = Append(@, [offset |-> win.start_index, docs |-> docs,
                                             total |-> payload.totalResults])]
    IN  /\ pc = "request"
        /\ IF payload.vulnerabilities = << >>
           THEN WindowReturns(win.total_requested, win.upserted, hist)
           ELSE /\ page' = [vulnerabilities |-> payload.vulnerabilities,
                            total_results |-> payload.totalResults, idx |-> 1, count |-> 0]
                /\ win' = [win EXCEPT !.attempt = 0]
                /\ pc' = "upsert"
                /\ h' = [hist EXCEPT !.pageStart = [cve |-> cve, cve_cpe |-> cve_cpe],
                                     !.aborted = FALSE]
                /\ UNCHANGED <<run, txn>>
        /\ UNCHANGED <<fn, clock, env, faults, tables, exc, outcome>>

\* mutant: the retry is not limited to the attempts 0 and 1
RequestRetry_Unlimited(status) ==
    /\ pc = "request"
    /\ status \in RetryableStatus
    /\ win.attempt < 3
    /\ win' = [win EXCEPT !.attempt = @ + 1]
    /\ h' = Responded(h, status, <<2 ^ win.attempt>>, "pending")
    /\ UNCHANGED <<fn, clock, env, faults, tables, txn, pc, run, page, exc, outcome>>

\* a retryable status on attempt 0 or 1: sleep 2^attempt seconds, try again
RequestRetry(status) ==
    /\ pc = "request"
    /\ status \in RetryableStatus
    /\ win.attempt < 2
    /\ win' = [win EXCEPT !.attempt = @ + 1]
    /\ h' = Responded(h, status, <<2 ^ win.attempt>>, "pending")
    /\ UNCHANGED <<fn, clock, env, faults, tables, txn, pc, run, page, exc, outcome>>

\* mutant: every status other than 200 is slept on and retried
RequestStatusRaises_Retries(status) ==
    /\ pc = "request"
    /\ status # 200
    /\ win.attempt < 2
    /\ win' = [win EXCEPT !.attempt = @ + 1]
    /\ h' = Responded(h, status, <<2 ^ win.attempt>>, "pending")
    /\ UNCHANGED <<fn, clock, env, faults, tables, txn, pc, run, page, exc, outcome>>

\* raise_for_status raises (non-retryable status, or retryable on the last attempt)
RequestStatusRaises(status) ==
    /\ pc = "request"
    /\ status # 200
    /\ status \notin RetryableStatus \/ win.attempt >= 2
    /\ CanFault
    /\ faults' = faults + 1
    /\ exc' = "HTTPError"
    /\ pc' = "unwind"
    /\ h' = Responded(h, status, << >>, "raised")
    /\ UNCHANGED <<fn, clock, env, tables, txn, run, win, page, outcome>>

\* requests.get itself raises (network failure, timeout)
RequestNetworkRaises ==
    /\ pc = "request"
    /\ CanFault
    /\ faults' = faults + 1
    /\ exc' = "ConnectionError"
    /\ pc' = "unwind"
    /\ h' = Responded(h, 0, << >>, "raised")
    /\ UNCHANGED <<fn, clock, env, tables, txn, run, win, page, outcome>>

(***************************************************************************)
(* upsert_cves: one loop iteration per item, one commit per page           *)
(***************************************************************************)
CurrentItem == page.vulnerabilities[page.idx]

UpsertItem ==
    /\ pc = "upsert"
    /\ page.idx <= Len(page.vulnerabilities)
    /\ CurrentItem.id # "" => ~MissingTimestamp(CurrentItem)
    /\ IF CurrentItem.id = ""
       THEN /\ page' = [page EXCEPT !.idx = @ + 1]
            /\ txn' = txn
       ELSE /\ page' = [page EXCEPT !.idx = @ + 1, !.count = @ + 1]
            /\ txn' = UpsertStatements(txn, CurrentItem, clock, "none")
    /\ UNCHANGED <<fn, clock, env, faults, tables, pc, run, win, exc, outcome, h>>

\* cve["published"] / cve["lastModified"] on a document without the key
UpsertItemKeyError ==
    /\ pc = "upsert"
    /\ page.idx <= Len(page.vulnerabilities)
    /\ CurrentItem.id # ""
    /\ MissingTimestamp(CurrentItem)
    /\ exc' = "KeyError"
    /\ pc' = "unwind"
    /\ UNCHANGED <<fn, clock, env, faults, tables, txn, run, win, page, outcome, h>>

\* a statement of the iteration raises; the earlier ones took effect in the transaction
UpsertItemRaises(failing) ==
    /\ pc = "upsert"
    /\ page.idx <= Len(page.vulnerabilities)
    /\ CurrentItem.id # ""
    /\ ~MissingTimestamp(CurrentItem)
    /\ CanFault
    /\ faults' = faults + 1
    /\ txn' = UpsertStatements(txn, CurrentItem, clock, failing)
    /\ exc' = "OperationalError"
    /\ pc' = "unwind"
    /\ UNCHANGED <<fn, clock, env, tables, run, win, page, outcome, h>>

RECURSIVE LatestAfter(_, _)
LatestAfter(latest, docs) ==
    IF docs = << >> THEN latest
    ELSE LatestAfter(IF Head(docs).id = "" THEN latest
                     ELSE [latest EXCEPT ![Head(docs).id] = Some(Head(docs))],
                     Tail(docs))

RECURSIVE RepeatsAfter(_, _, _)
RepeatsAfter(repeats, latest, docs) ==
    IF docs = << >> THEN repeats
    ELSE LET d == Head(docs) IN
         IF d.id = "" THEN RepeatsAfter(repeats, latest, Tail(docs))
         ELSE RepeatsAfter([repeats EXCEPT ![d.id] = IF latest[d.id] = Some(d) THEN @ + 1 ELSE 1],
                           [latest EXCEPT ![d.id] = Some(d)], Tail(docs))

RECURSIVE IngestsAfter(_, _)
IngestsAfter(ingests, docs) ==
    IF docs = << >> THEN ingests
    ELSE IngestsAfter(IF Head(docs).id = "" THEN ingests
                      ELSE [ingests EXCEPT ![Head(docs).id] = @ + 1],
                      Tail(docs))

\* mutant: an offset equal to the reported total does not end the loop
WindowDrained_Beyond(start_index, total_results) == start_index > total_results

\* if start_index >= total_results: break
WindowDrained(start_index, total_results) == start_index >= total_results

\* mutant: the transaction is committed once per window, after its last page
CommitPage_AtWindowEnd ==
    LET n         == Len(page.vulnerabilities)
        requested == win.total_requested + n
        upserted  == win.upserted + page.count
        hist      == [h EXCEPT !.call = NoCall, !.committed = @ + page.count,
                               !.latest = LatestAfter(@, page.vulnerabilities),
                               !.ingests = IngestsAfter(@, page.vulnerabilities),
                               !.repeats = RepeatsAfter(@, h.latest, page.vulnerabilities)]
    IN  /\ pc = "upsert"
        /\ page.idx > Len(page.vulnerabilities)
        /\ IF WindowDrained(win.start_index + n, page.total_results)
           THEN /\ cve' = txn.cve
                /\ cve_cpe' = txn.cve_cpe
                /\ WindowReturns(requested, upserted, hist)
           ELSE /\ win' = [win EXCEPT !.total_requested = requested,
                                      !.upserted = upserted,
                                      !.start_index = @ + n]
                /\ page' = NoPage
                /\ pc' = "request"
                /\ h' = hist
                /\ UNCHANGED <<run, txn, cve, cve_cpe>>
        /\ UNCHANGED <<fn, clock, env, faults, ingest_checkpoint, ingest_job_log, exc, outcome>>

\* conn.commit() at the end of upsert_cves, then the rest of the loop body of fetch_window
CommitPage ==
    LET n         == Len(page.vulnerabilities)
        requested == win.total_requested + n
        upserted  == win.upserted + page.count
        hist      == [h EXCEPT !.call = NoCall, !.committed = @ + page.count,
                               !.latest = LatestAfter(@, page.vulnerabilities),
                               !.ingests = IngestsAfter(@, page.vulnerabilities),
                               !.repeats = RepeatsAfter(@, h.latest, page.vulnerabilities)]
    IN  /\ pc = "upsert"
        /\ page.idx > Len(page.vulnerabilities)
        /\ cve' = txn.cve
        /\ cve_cpe' = txn.cve_cpe
        /\ IF WindowDrained(win.start_index + n, page.total_results)
           THEN WindowReturns(requested, upserted, hist)
           ELSE /\ win' = [win EXCEPT !.total_requested = requested,
                                      !.upserted = upserted,
                                      !.start_index = @ + n]
                /\ page' = NoPage
                /\ pc' = "request"
                /\ h' = hist
                /\ UNCHANGED <<run, txn>>
        /\ UNCHANGED <<fn, clock, env, faults, ingest_checkpoint, ingest_job_log, exc, outcome>>

CommitRaises ==
    /\ pc = "upsert"
    /\ page.idx > Len(page.vulnerabilities)
    /\ CanFault
    /\ faults' = faults + 1
    /\ exc' = "OperationalError"
    /\ pc' = "unwind"
    /\ UNCHANGED <<fn, clock, env, tables, txn, run, win, page, outcome, h>>

AbortHistory ==
    [h EXCEPT !.failedWindow = h.window,
              !.aborted = (page # NoPage),
              !.abortedDirty = (txn.cve # cve \/ txn.cve_cpe # cve_cpe),
              !.call = NoCall]

\* mutant: closing the connection commits the open transaction
FetchWindowFinally_Commits ==
    /\ pc = "unwind"
    /\ cve' = txn.cve
    /\ cve_cpe' = txn.cve_cpe
    /\ txn' = NoTxn
    /\ win' = NoWin
    /\ page' = NoPage
    /\ pc' = "except"
    /\ h' = AbortHistory
    /\ UNCHANGED <<fn, clock, env, faults, ingest_checkpoint, ingest_job_log, run, exc, outcome>>

\* mutant: the counts of the failed window's committed pages reach the run totals
FetchWindowFinally_KeepsCounts ==
    /\ pc = "unwind"
    /\ txn' = NoTxn
    /\ win' = NoWin
    /\ page' = NoPage
    /\ pc' = "except"
    /\ run' = [run EXCEPT !.total_requested = @ + win.total_requested,
                          !.total_upserted = @ + win.upserted]
    /\ h' = AbortHistory
    /\ UNCHANGED <<fn, clock, env, faults, tables, exc, outcome>>

\* finally: conn.close() discards the open transaction; the exception leaves fetch_window
FetchWindowFinally ==
    /\ pc = "unwind"
    /\ txn' = NoTxn
    /\ win' = NoWin
    /\ page' = NoPage
    /\ pc' = "except"
    /\ h' = AbortHistory
    /\ UNCHANGED <<fn, clock, env, faults, tables, run, exc, outcome>>

(***************************************************************************)
(* The end of the try block: checkpoint and ledger                         *)
(***************************************************************************)
\* the window loop is exhausted; psycopg2.connect
FinishConnect ==
    /\ pc = "windows"
    /\ run.cursor >= run.end
    /\ pc' = IF run.mode = "incremental" THEN "set_checkpoint" ELSE "finish_job"
    /\ UNCHANGED <<fn, clock, env, faults, tables, txn, run, win, page, exc, outcome, h>>

FinishConnectRaises ==
    /\ pc = "windows"
    /\ run.cursor >= run.end
    /\ CanFault
    /\ faults' = faults + 1
    /\ exc' = "OperationalError"
    /\ pc' = "except"
    /\ UNCHANGED <<fn, clock, env, tables, txn, run, win, page, outcome, h>>

\* set_checkpoint(conn, end), committed
\* mutant: the start of the span is stored
SetCheckpoint_Start ==
    /\ pc = "set_checkpoint"
    /\ ingest_checkpoint' = set_checkpoint(ingest_checkpoint, run.start)
    /\ pc' = "finish_job"
    /\ h' = [h EXCEPT !.cpWrites = @ + 1]
    /\ UNCHANGED <<fn, clock, env, faults, cve, cve_cpe, ingest_job_log, txn, run, win, page,
                   exc, outcome>>

SetCheckpoint ==
    /\ pc = "set_checkpoint"
    /\ ingest_checkpoint' = set_checkpoint(ingest_checkpoint, run.end)
    /\ pc' = "finish_job"
    /\ h' = [h EXCEPT !.cpWrites = @ + 1]
    /\ UNCHANGED <<fn, clock, env, faults, cve, cve_cpe, ingest_job_log, txn, run, win, page,
                   exc, outcome>>

SetCheckpointRaises ==
    /\ pc = "set_checkpoint"
    /\ CanFault
    /\ faults' = faults + 1
    /\ exc' = "OperationalError"
    /\ pc' = "except"
    /\ UNCHANGED <<fn, clock, env, tables, txn, run, win, page, outcome, h>>

\* finish_job_log(conn, job_id, "success", ...), conn.close(), return
FinishJobSuccess ==
    /\ pc = "finish_job"
    /\ ingest_job_log' = finish_job_log(ingest_job_log, run.job_id, "success",
                                        run.total_requested, run.total_upserted, 0,
                                        Null, clock)
    /\ pc' = "done"
    /\ outcome' = [kind |-> "returned", exc |-> ""]
    /\ h' = [h EXCEPT !.finishCalls = @ + 1, !.statusWrites = @ + 1]
    /\ UNCHANGED <<fn, clock, env, faults, cve, cve_cpe, ingest_checkpoint, txn, run, win, page,
                   exc>>

\* the success-path finish_job_log raises: nothing is written, the handler runs
FinishJobSuccessRaises ==
    /\ pc = "finish_job"
    /\ CanFault
    /\ faults' = faults + 1
    /\ exc' = "OperationalError"
    /\ pc' = "except"
    /\ h' = [h EXCEPT !.finishCalls = @ + 1]
    /\ UNCHANGED <<fn, clock, env, tables, txn, run, win, page, outcome>>

(***************************************************************************)
(* except Exception as exc: connect, finish_job_log("failed"), raise       *)
(***************************************************************************)
ExceptFinishJob ==
    /\ pc = "except"
    /\ ingest_job_log' = finish_job_log(ingest_job_log, run.job_id, "failed",
                                        run.total_requested, run.total_upserted, 1,
                                        Some(exc), clock)
    /\ pc' = "done"
    /\ outcome' = [kind |-> "raised", exc |-> exc]
    /\ h' = [h EXCEPT !.finishCalls = @ + 1, !.statusWrites = @ + 1]
    /\ UNCHANGED <<fn, clock, env, faults, cve, cve_cpe, ingest_checkpoint, txn, run, win, page,
                   exc>>

\* psycopg2.connect raises inside the handler: the new exception reaches the caller
ExceptConnectRaises ==
    /\ pc = "except"
    /\ CanFault
    /\ faults' = faults + 1
    /\ pc' = "done"
    /\ outcome' = [kind |-> "raised", exc |-> "OperationalError"]
    /\ UNCHANGED <<fn, clock, env, tables, txn, run, win, page, exc, h>>

\* finish_job_log raises inside the handler
ExceptFinishJobRaises ==
    /\ pc = "except"
    /\ CanFault
    /\ faults' = faults + 1
    /\ pc' = "done"
    /\ outcome' = [kind |-> "raised", exc |-> "OperationalError"]
    /\ h' = [h EXCEPT !.finishCalls = @ + 1]
    /\ UNCHANGED <<fn, clock, env, tables, txn, run, win, page, exc>>

(***************************************************************************)
(* Specification                                                           *)
(***************************************************************************)
Next ==
    \/ \E i \in 1..Len(feed) : SourceUpdate(i)
    \/ \E s \in InitialSettings : RunInitialBegin(s)
    \/ \E s \in IncrementalSettings : RunIncrementalBegin(s)
    \/ \E m \in {"initial", "incremental"} : RunBeginRaises(m)
    \/ FetchWindowBegin
    \/ FetchWindowConnectRaises
    \/ RequestOk
    \/ \E st \in StatusChoices : RequestRetry(st)
    \/ \E st \in StatusChoices : RequestStatusRaises(st)
    \/ RequestNetworkRaises
    \/ UpsertItem
    \/ UpsertItemKeyError
    \/ \E f \in {"upsert", "delete", "insert"} : UpsertItemRaises(f)
    \/ CommitPage
    \/ CommitRaises
    \/ FetchWindowFinally
    \/ FinishConnect
    \/ FinishConnectRaises
    \/ SetCheckpoint
    \/ SetCheckpointRaises
    \/ FinishJobSuccess
    \/ FinishJobSuccessRaises
    \/ ExceptFinishJob
    \/ ExceptConnectRaises
    \/ ExceptFinishJobRaises

Spec == Init /\ [][Next]_vars

(***************************************************************************)
(* chunk_ranges driven on its own, one loop iteration per step              *)
(***************************************************************************)
\* instants (hours) and window sizes (days) the generator is called with
PlannerInstants == {0, 7, 24, 100, 240}

PlannerDays == {-1, 0, 1, 4}

\* windows recorded per call
MaxWindows == 12

\* no invocation of the program is running
Parked ==
    /\ clock = FirstNow
    /\ feed = <<Doc1, Doc2, Doc3>>
    /\ srcUpdates = 0
    /\ faults = 0
    /\ cve = {}
    /\ cve_cpe = {}
    /\ ingest_checkpoint = {}
    /\ ingest_job_log = << >>
    /\ txn = NoTxn
    /\ pc = "idle"
    /\ run = NoRun
    /\ win = NoWin
    /\ page = NoPage
    /\ exc = ""
    /\ outcome = [kind |-> "none", exc |-> ""]
    /\ h = NoHistory

PlannerInit ==
    /\ Parked
    /\ \E start \in PlannerInstants, end \in PlannerInstants, days \in PlannerDays :
           fn = [args |-> [start |-> start, end |-> end, days |-> days],
                 cursor |-> start, yielded |-> << >>, done |-> FALSE]

\* while cursor < end: yield (cursor, min(cursor + days, end)); cursor = that end
ChunkYield ==
    LET window_end == ChunkWindowEnd(fn.cursor, fn.args.end, fn.args.days)
    IN  /\ ~fn.done
        /\ fn.cursor < fn.args.end
        /\ Len(fn.yielded) < MaxWindows
        /\ fn' = [fn EXCEPT !.yielded = Append(@, <<fn.cursor, window_end>>),
                            !.cursor = window_end]
        /\ UNCHANGED program

\* the loop condition fails: the generator is exhausted
ChunkStop ==
    /\ ~fn.done
    /\ fn.cursor >= fn.args.end
    /\ fn' = [fn EXCEPT !.done = TRUE]
    /\ UNCHANGED program

PlannerNext == ChunkYield \/ ChunkStop

PlannerSpec == PlannerInit /\ [][PlannerNext]_vars

(***************************************************************************)
(* Properties                                                              *)
(***************************************************************************)
RunEnded == pc = "done"

\* the invocation that ended had created a job row
JobCreated == run.job_id # 0

CurrentJob == ingest_job_log[run.job_id]

PlannedWindows == chunk_ranges(run.start, run.end, run.settings.incremental_window_days)

\* C1: an incremental run that ends by raising leaves the stored checkpoint
\* equal to its value before the run, whichever step raised.
C1_FailedRunKeepsCheckpoint ==
    (RunEnded /\ run.mode = "incremental" /\ outcome.kind = "raised")
        => ingest_checkpoint = h.begin.checkpoint

\* C2: on every path of a run that created a job, finish_job_log is called
\* exactly once, and a terminal status is written to the job at most once.
C2_FinishJobExactlyOnce ==
    (RunEnded /\ JobCreated) => (h.finishCalls = 1 /\ h.statusWrites <= 1)

\* C3: once a run has returned or raised to its caller, the job it created
\* has status success or failed, never running.
C3_JobTerminalWhenRunEnds ==
    (RunEnded /\ JobCreated) => CurrentJob.status \in {"success", "failed"}

\* C4: when an exception escapes window processing, the job is first updated
\* to failed with the exception's message and that same exception is then
\* raised to the caller; a run returns normally only if its job is success.
C4_FailureRecordedThenReraised ==
    (RunEnded /\ JobCreated) =>
        /\ outcome.kind = "returned" => CurrentJob.status = "success"
        /\ h.failedWindow # 0 =>
               /\ CurrentJob.status = "failed"
               /\ CurrentJob.error_message = Some(exc)
               /\ outcome = [kind |-> "raised", exc |-> exc]

\* C5: the checkpoint is read and written by incremental runs only; it is
\* written only after every planned window has returned without error, with
\* the run's end instant, while the job is still running; so a successful
\* incremental job implies the checkpoint equals that job's window_end.
C5_CheckpointWrittenAfterAllWindows ==
    /\ [][ (h'.cpWrites # h.cpWrites \/ ingest_checkpoint' # ingest_checkpoint) =>
             /\ run.mode = "incremental"
             /\ run.cursor >= run.end
             /\ Len(h.winCounts) = Len(PlannedWindows)
             /\ h.failedWindow = 0 /\ exc = ""
             /\ get_checkpoint(ingest_checkpoint') = Some(run.end)
             /\ CurrentJob.status = "running"
             /\ ingest_job_log' = ingest_job_log ]_vars
    /\ [][ run'.mode = "initial" => h'.cpReads = h.cpReads ]_vars
    /\ []( (JobCreated /\ run.mode = "incremental" /\ CurrentJob.status = "success")
             => get_checkpoint(ingest_checkpoint) = Some(CurrentJob.window_end) )

C5_Witness ==
    /\ RunEnded /\ JobCreated /\ run.mode = "incremental"
    /\ CurrentJob.status = "success"
    /\ Len(PlannedWindows) = 3
    /\ h.cpWrites = 1
    /\ get_checkpoint(ingest_checkpoint) = Some(run.end)
    /\ ingest_checkpoint # h.begin.checkpoint

(***************************************************************************)
(* A run without faults, as a function of the tables and the feed          *)
(***************************************************************************)
WithoutUpdatedAt(table) ==
    { [id |-> r.id, published_at |-> r.published_at,
       last_modified_at |-> r.last_modified_at, raw |-> r.raw] : r \in table }

Store(cveTable, cpeTable) == [open |-> TRUE, cve |-> cveTable, cve_cpe |-> cpeTable]

Upsertable(d) == d.id # "" /\ ~MissingTimestamp(d)

\* upsert_cves over a list of documents, none of which raises
RECURSIVE UpsertDocs(_, _, _)
UpsertDocs(store, docs, now) ==
    IF docs = << >> THEN store
    ELSE UpsertDocs(IF Head(docs).id = "" THEN store
                    ELSE UpsertStatements(store, Head(docs), now, "none"),
                    Tail(docs), now)

\* every document the source returns for a window, over all its pages
WindowDocs(docs, settings, mode, w) ==
    Filter(docs, RequestParams(settings, 0, w[1], w[2], mode))

RECURSIVE UpsertWindows(_, _, _, _, _, _)
UpsertWindows(store, windows, docs, settings, mode, now) ==
    IF windows = << >> THEN store
    ELSE UpsertWindows(UpsertDocs(store, WindowDocs(docs, settings, mode, Head(windows)), now),
                       Tail(windows), docs, settings, mode, now)

\* the tables after one successful incremental run at `now` from a snapshot
SingleIncrementalRun(snapshot, now, settings) ==
    UpsertWindows(Store(snapshot.cve, snapshot.cve_cpe),
                  chunk_ranges(IncrementalStart(snapshot.checkpoint, now, settings), now,
                               settings.incremental_window_days),
                  snapshot.feed, settings, "incremental", now)

RECURSIVE CountIds(_)
CountIds(docs) ==
    IF docs = << >> THEN 0
    ELSE (IF Head(docs).id = "" THEN 0 ELSE 1) + CountIds(Tail(docs))

RECURSIVE SumRequested(_, _, _, _)
SumRequested(windows, docs, settings, mode) ==
    IF windows = << >> THEN 0
    ELSE Len(WindowDocs(docs, settings, mode, Head(windows)))
         + SumRequested(Tail(windows), docs, settings, mode)

RECURSIVE SumUpserted(_, _, _, _)
SumUpserted(windows, docs, settings, mode) ==
    IF windows = << >> THEN 0
    ELSE CountIds(WindowDocs(docs, settings, mode, Head(windows)))
         + SumUpserted(Tail(windows), docs, settings, mode)

CveRowsOf(id) == {r \in cve : r.id = id}

CpeRowsOf(id) == {r \in cve_cpe : r.cve_id = id}

\* C6: upserting a document a second time leaves exactly one row for its id
\* and the tables as the first upsert left them, updated_at apart; an id whose
\* document was committed twice in a row is stored as a single upsert stores it.
C6_UpsertIdempotent ==
    /\ \A i \in 1..Len(feed) : Upsertable(feed[i]) =>
           LET once  == UpsertStatements(Store(cve, cve_cpe), feed[i], clock, "none")
               twice == UpsertStatements(once, feed[i], clock + 1, "none")
           IN  /\ Cardinality({r \in twice.cve : r.id = feed[i].id}) = 1
               /\ Cardinality(twice.cve) = Cardinality(once.cve)
               /\ WithoutUpdatedAt(twice.cve) = WithoutUpdatedAt(once.cve)
               /\ twice.cve_cpe = once.cve_cpe
    /\ \A id \in Ids : h.repeats[id] >= 2 =>
           LET single == UpsertStatements(Store({}, {}), h.latest[id][1], clock, "none")
           IN  /\ Cardinality(CveRowsOf(id)) = 1
               /\ WithoutUpdatedAt(CveRowsOf(id)) = WithoutUpdatedAt(single.cve)
               /\ CpeRowsOf(id) = single.cve_cpe

C6_Witness ==
    \E id \in Ids : /\ h.repeats[id] >= 2
                    /\ Cardinality(CveRowsOf(id)) = 1
                    /\ CpeRowsOf(id) # {}

\* C7: the associations stored for an id are exactly the resolver output of
\* the document last committed for that id (none for an id never committed).
C7_AssociationsOfLatestDocument ==
    \A id \in Ids :
        CpeRowsOf(id) = IF h.latest[id] = Null THEN {}
                        ELSE CpeRows(id, extract_cpe_matches(h.latest[id][1]))

\* CVE-1 was committed with A and B, then again with B dropped
C7_Witness ==
    /\ h.ingests["CVE-1"] >= 2
    /\ h.repeats["CVE-1"] = 1
    /\ h.latest["CVE-1"][1].configurations = CfgDropped
    /\ \E r \in CpeRowsOf("CVE-1") : r.criteria = CritA
    /\ ~\E r \in CpeRowsOf("CVE-1") : r.criteria = CritB

\* C8: while a page is being upserted and after its transaction is aborted,
\* the committed tables are those of the moment the page began, and every
\* document committed before is still stored.
C8_PageAtomic ==
    ((page # NoPage /\ pc \in {"upsert", "unwind"}) \/ (h.aborted /\ pc \in {"except", "done"}))
        => /\ cve = h.pageStart.cve
           /\ cve_cpe = h.pageStart.cve_cpe
           /\ \A id \in Ids : h.latest[id] # Null =>
                  \E r \in cve : r.id = id /\ r.raw = h.latest[id][1]

\* a page of the second window is aborted with uncommitted changes, after
\* the first window was committed
C8_Witness ==
    /\ pc = "except"
    /\ h.aborted /\ h.abortedDirty
    /\ h.window >= 2
    /\ cve # h.begin.cve
    /\ cve = h.pageStart.cve

\* a failed incremental run followed by a successful one, the source unchanged
RetryDone ==
    /\ RunEnded /\ outcome.kind = "returned" /\ run.mode = "incremental"
    /\ h.prevFailed /\ feed = h.prev.feed

\* the tables equal, updated_at apart, those of one successful incremental
\* run at `now` from the state before the failed run
EqualsSingleRunAt(now) ==
    LET ref == SingleIncrementalRun(h.prev, now, run.settings)
    IN  /\ WithoutUpdatedAt(cve) = WithoutUpdatedAt(ref.cve)
        /\ Cardinality(cve) = Cardinality(ref.cve)
        /\ cve_cpe = ref.cve_cpe

\* C9 as stated: a failed incremental run followed by a successful one, the
\* source unchanged in between, leaves the tables (updated_at apart) as one
\* successful run from the state before the failed run does.
C9_RetryEqualsSingleRun ==
    RetryDone => EqualsSingleRunAt(run.end)

\* C9: when a checkpoint was stored before the failed run, the failed run
\* followed by the successful one leaves the tables (updated_at apart) as one
\* successful run from the state before the failed run does, whether that
\* run is taken at the time of the retry or at the time of the failed run.
C9_RetryEqualsSingleRunFromCheckpoint ==
    (RetryDone /\ get_checkpoint(h.prev.checkpoint) # Null)
        => /\ EqualsSingleRunAt(run.end)
           /\ EqualsSingleRunAt(run.end - Schedule[h.runs])

\* the failed run had committed a page before it failed
C9_Witness ==
    /\ RetryDone
    /\ get_checkpoint(h.prev.checkpoint) # Null
    /\ h.begin.cve # h.prev.cve
    /\ cve # h.begin.cve

JobFinished == RunEnded /\ JobCreated /\ CurrentJob.status \in {"success", "failed"}

\* C11: on every finished job, successful or failed, requested_count is the
\* number of documents received from the source during the run and
\* upserted_count the number of documents whose upsert was committed.
C11_LedgerCountsProgress ==
    JobFinished => /\ CurrentJob.requested_count = Some(h.received)
                   /\ CurrentJob.upserted_count = Some(h.committed)

Retryable == {429, 500, 502, 503, 504}

Last(seq) == seq[Len(seq)]

\* C12: a call of request_with_retry receives at most 3 responses; every
\* response that was retried had a retryable status and was followed by a
\* sleep of 2^k seconds, k = 0, 1 the attempt; a third retryable status ends
\* the call by raising; a 200 ends the call by returning.
C12_AtMostThreeRequests ==
    LET c == h.call
        n == Len(c.statuses)
    IN  /\ n <= 3
        /\ Len(c.sleeps) = (IF c.result = "pending" THEN n ELSE n - 1)
        /\ Len(c.sleeps) <= 2
        /\ \A k \in 1..Len(c.sleeps) :
               c.statuses[k] \in Retryable /\ c.sleeps[k] = 2 ^ (k - 1)
        /\ \A k \in 1..n : c.statuses[k] = 200 => (k = n /\ c.result = "returned")
        /\ c.result = "returned" => (n >= 1 /\ Last(c.statuses) = 200)
        /\ (n = 3 /\ c.statuses[3] \in Retryable) => c.result = "raised"
        /\ (pc = "request") = (c.result = "pending" /\ txn.open)

\* three retryable statuses: slept 1 s, then 2 s, then raised
C12_Witness ==
    /\ h.call = [statuses |-> <<503, 503, 503>>, sleeps |-> <<1, 2>>, result |-> "raised"]
    /\ pc = "unwind" /\ exc = "HTTPError"

RequestStep ==
    \/ RequestOk
    \/ \E st \in StatusChoices : RequestRetry(st)
    \/ \E st \in StatusChoices : RequestStatusRaises(st)
    \/ RequestNetworkRaises

CeilDiv(a, b) == (a + b - 1) \div b

RECURSIVE PagesDocs(_)
PagesDocs(pages) ==
    IF pages = << >> THEN << >> ELSE Head(pages).docs \o PagesDocs(Tail(pages))

\* the page is empty, or its offset plus its length reaches the total it reports
StopsAfter(p) == Len(p.docs) = 0 \/ p.offset + Len(p.docs) >= p.total

\* the latest window begun has been drained: fetch_window returned
WindowComplete == h.spans # << >> /\ Len(h.winCounts) = Len(h.spans)

\* C14: within a window the first offset is 0 and each next one the previous
\* offset plus the length of the page received; a further page is requested
\* exactly when the page was not empty and the offset is below the reported
\* total; a drained window took ceil(T/P) answered requests (one when T = 0)
\* and received each of the T documents of the window once, in order.
C14_PaginationDrainsWindow ==
    LET pages == h.pages
        n     == Len(pages)
        P     == run.settings.nvd_results_per_page
    IN  /\ n >= 1 => pages[1].offset = 0
        /\ \A k \in 2..n : pages[k].offset = pages[k - 1].offset + Len(pages[k - 1].docs)
        /\ \A k \in 1..(n - 1) : ~StopsAfter(pages[k])
        /\ (pc = "request" /\ n >= 1) => ~StopsAfter(Last(pages))
        /\ WindowComplete =>
               LET all == WindowDocs(h.begin.feed, run.settings, run.mode, Last(h.spans))
               IN  /\ n = (IF Len(all) = 0 THEN 1 ELSE CeilDiv(Len(all), P))
                   /\ StopsAfter(Last(pages))
                   /\ PagesDocs(pages) = all

\* three documents in pages of two: offsets 0 and 2
C14_Witness ==
    /\ WindowComplete
    /\ run.settings.nvd_results_per_page = 2
    /\ Len(h.pages) = 2
    /\ Len(h.pages[1].docs) = 2 /\ Len(h.pages[2].docs) = 1
    /\ h.pages[2].offset = 2 /\ h.pages[2].total = 3

\* every document received so far in the invocation that carries an id has the
\* row of its id stored, holding a document received in this invocation
ReceivedStored ==
    \A d \in h.seen : d.id # "" => \E r \in cve : r.id = d.id /\ r.raw \in h.seen

\* C15: a request is issued only when nothing is uncommitted: the open
\* transaction holds no change, every document received before is stored, and
\* every earlier window has been drained; a window begins only after the
\* window before it has been drained, where that window ended.
C15_FetchPersistSequential ==
    /\ [][RequestStep => (/\ txn.cve = cve /\ txn.cve_cpe = cve_cpe
                          /\ ReceivedStored
                          /\ Len(h.winCounts) = Len(h.spans) - 1)]_vars
    /\ [][FetchWindowBegin => (/\ Len(h.winCounts) = Len(h.spans)
                               /\ ReceivedStored)]_vars
    /\ [](\A k \in 2..Len(h.spans) : /\ h.spans[k][1] = h.spans[k - 1][2]
                                     /\ h.spans[k - 1][1] < h.spans[k][1])

\* the second page of the second window is about to be requested
C15_Witness ==
    /\ pc = "request"
    /\ h.call = NoCall
    /\ win.start_index > 0
    /\ Len(h.spans) >= 2
    /\ h.committed >= 2
    /\ txn.cve = cve /\ cve # h.begin.cve

IncrementalJob == JobCreated /\ run.mode = "incremental"

CheckpointAtBegin == get_checkpoint(h.begin.checkpoint)

\* C18: with a checkpoint C stored when it begins, an incremental run spans
\* from C minus one hour to the `now` it captured: these are the window_start
\* and window_end of its job, and where its first window starts.
C18_SpanFromCheckpointMinusOneHour ==
    (IncrementalJob /\ CheckpointAtBegin # Null)
        => /\ run.start = CheckpointAtBegin[1] - 1
           /\ run.end = clock
           /\ CurrentJob.window_start = CheckpointAtBegin[1] - 1
           /\ CurrentJob.window_end = clock
           /\ h.spans # << >> => h.spans[1][1] = CheckpointAtBegin[1] - 1
           /\ \A k \in 1..Len(h.spans) : h.spans[k][2] <= clock
           /\ CurrentJob.status = "success" => Last(h.spans)[2] = clock

\* the second run starts one hour before the checkpoint the first run wrote
C18_Witness ==
    /\ RunEnded /\ IncrementalJob
    /\ h.runs = 2
    /\ CheckpointAtBegin = Some(FirstNow)
    /\ CurrentJob.status = "success"
    /\ CurrentJob.window_start = FirstNow - 1
    /\ CurrentJob.window_end = FirstNow + Schedule[2]

\* C19: with no checkpoint stored when it begins, an incremental run starts
\* exactly incremental_window_days days before the `now` it captured and ends
\* at that `now`, so that its span is one window.
C19_NoCheckpointOneWindow ==
    (IncrementalJob /\ CheckpointAtBegin = Null)
        => /\ run.start = clock - run.settings.incremental_window_days * 24
           /\ run.end = clock
           /\ CurrentJob.window_start = clock - run.settings.incremental_window_days * 24
           /\ CurrentJob.window_end = clock
           /\ Len(PlannedWindows) = 1

\* C20: every document received by a run whose job ends with status success
\* has a row for its id, and the job's upserted_count equals its
\* requested_count.
C20_NoDocumentSkipped ==
    (RunEnded /\ JobCreated /\ CurrentJob.status = "success")
        => /\ \A d \in h.seen : \E r \in cve : r.id = d.id
           /\ CurrentJob.upserted_count = CurrentJob.requested_count

\* C16: for start < end and a size of at least one day the windows yielded
\* begin at start, end at end, each begins where the one before ended, each is
\* non-empty and at most size days long, and all but the last are exactly size
\* days long (hours 0 to 240 with size 4: [0,96), [96,192), [192,240)); for
\* start >= end nothing is yielded.
C16_WindowsPartitionSpan ==
    (fn.done /\ fn.args.days >= 1)
        => LET w    == fn.yielded
               size == fn.args.days * 24
           IN  /\ w = chunk_ranges(fn.args.start, fn.args.end, fn.args.days)
               /\ fn.args.start >= fn.args.end => w = << >>
               /\ fn.args.start < fn.args.end =>
                      /\ Len(w) >= 1
                      /\ w[1][1] = fn.args.start
                      /\ Last(w)[2] = fn.args.end
                      /\ \A k \in 2..Len(w) : w[k][1] = w[k - 1][2]
                      /\ \A k \in 1..Len(w) : /\ w[k][1] < w[k][2]
                                              /\ w[k][2] - w[k][1] <= size
                      /\ \A k \in 1..(Len(w) - 1) : w[k][2] - w[k][1] = size
               /\ fn.args = [start |-> 0, end |-> 240, days |-> 4]
                      => w = << <<0, 96>>, <<96, 192>>, <<192, 240>> >>

C16_Witness ==
    /\ fn.done
    /\ fn.args = [start |-> 0, end |-> 240, days |-> 4]
    /\ fn.yielded = << <<0, 96>>, <<96, 192>>, <<192, 240>> >>

\* C17: the window loop terminates for every start, end and size: every
\* window it yields moves the cursor strictly towards end, and the generator
\* is exhausted before it has yielded MaxWindows windows.
C17_WindowLoopTerminates ==
    /\ [][ChunkYield => fn'.cursor > fn.cursor]_vars
    /\ [](Len(fn.yielded) < MaxWindows)

\* C21: a document with an id that lacks published or lastModified is not
\* skipped: the upsert loop raises KeyError at it; when the run has ended the
\* committed tables are those from before the page, the job is failed with
\* that error and that error has reached the caller.
C21_MissingTimestampFailsRun ==
    /\ (pc = "upsert" /\ page.idx <= Len(page.vulnerabilities)
            /\ CurrentItem.id # "" /\ MissingTimestamp(CurrentItem))
           => ~ENABLED UpsertItem
    /\ (RunEnded /\ JobCreated /\ exc = "KeyError")
           => /\ cve = h.pageStart.cve
              /\ cve_cpe = h.pageStart.cve_cpe
              /\ CurrentJob.status = "failed"
              /\ CurrentJob.error_message = Some("KeyError")
              /\ outcome = [kind |-> "raised", exc |-> "KeyError"]

(***************************************************************************)
(* The configuration tree as a collection of match entries                 *)
(***************************************************************************)
SeqRange(seq) == {seq[i] : i \in 1..Len(seq)}

\* the match entries of a node and of the nodes below it
RECURSIVE NodeMatches(_)
NodeMatches(node) ==
    SeqRange(node.cpeMatch) \cup UNION {NodeMatches(child) : child \in SeqRange(node.children)}

\* the match entries occurring anywhere in the configuration groups
ConfigMatches(configurations) ==
    UNION {NodeMatches(node) : node \in UNION {SeqRange(c.nodes) : c \in SeqRange(configurations)}}

ValidMatch(match) == parse_cpe23(Strip(match.criteria)) # Null

ValidIdentifiers(configurations) ==
    {Strip(m.criteria) : m \in {x \in ConfigMatches(configurations) : ValidMatch(x)}}

HasInvalidIdentifier(d) == \E m \in ConfigMatches(d.configurations) : ~ValidMatch(m)

\* C22: a document holding an invalid identifier is upserted like any other:
\* the step of the upsert loop at it either is an injected database fault or
\* writes the document's row, writes one association per valid identifier of
\* the document (none for the invalid one) and counts the document; a
\* successful job has stored and counted every such document.
C22_InvalidIdentifierSkipped ==
    /\ [][ (/\ pc = "upsert" /\ page.idx <= Len(page.vulnerabilities)
            /\ CurrentItem.id # "" /\ ~MissingTimestamp(CurrentItem)
            /\ HasInvalidIdentifier(CurrentItem)
            /\ faults' = faults)
           => /\ exc' = exc /\ pc' = pc
              /\ page'.idx = page.idx + 1
              /\ page'.count = page.count + 1
              /\ \E r \in txn'.cve : r.id = CurrentItem.id /\ r.raw = CurrentItem
              /\ {r.criteria : r \in {x \in txn'.cve_cpe : x.cve_id = CurrentItem.id}}
                     = ValidIdentifiers(CurrentItem.configurations) ]_vars
    /\ []( (RunEnded /\ JobCreated /\ CurrentJob.status = "success")
             => \A d \in h.seen : (d.id # "" /\ HasInvalidIdentifier(d)) =>
                    /\ \E r \in cve : r.id = d.id
                    /\ h.ingests[d.id] >= 1
                    /\ h.committed >= 1
                    /\ CurrentJob.upserted_count = Some(h.committed) )

C22_Witness ==
    /\ RunEnded /\ JobCreated /\ CurrentJob.status = "success"
    /\ \E r \in cve :
           /\ HasInvalidIdentifier(r.raw)
           /\ r.raw \in h.seen
           /\ {x.criteria : x \in CpeRowsOf(r.id)} = {CritA, CritB}
           /\ \E m \in NodeMatches(r.raw.configurations[1].nodes[1].children[1]) : ~ValidMatch(m)
           /\ \E m \in NodeMatches(r.raw.configurations[1].nodes[1].children[1]) : ValidMatch(m)
    /\ CurrentJob.upserted_count = CurrentJob.requested_count

(***************************************************************************)
(* extract_cpe_matches driven on its own, on two documents built from the  *)
(* same match entries                                                      *)
(***************************************************************************)
\* the identifier A with surrounding whitespace
CritAPadded == <<" ">> \o CritA \o <<" ", "\n">>

ResolverMatches ==
    { Match(CritA, FALSE), Match(CritA, TRUE), Match(CritB, FALSE), Match(CritB, TRUE),
      Match(CritBad, TRUE), Match(CritAPadded, TRUE) }

\* match entries per document
MaxMatches == 3

MatchSeqs == UNION {[1..n -> ResolverMatches] : n \in 0..MaxMatches}

\* one group, one node holding every entry
FlatTree(ms) == << [nodes |-> << Node(ms, << >>) >>] >>

\* one group per entry
GroupTree(ms) == [i \in 1..Len(ms) |-> [nodes |-> << Node(<<ms[i]>>, << >>) >>]]

\* one group, one node per entry
NodesTree(ms) == << [nodes |-> [i \in 1..Len(ms) |-> Node(<<ms[i]>>, << >>)]] >>

\* one group, an empty node with one child per entry
ChildrenTree(ms) ==
    << [nodes |-> << Node(<< >>, [i \in 1..Len(ms) |-> Node(<<ms[i]>>, << >>)]) >>] >>

\* every entry one level below the entry before it
RECURSIVE ChainNode(_)
ChainNode(ms) ==
    Node(<<Head(ms)>>, IF Tail(ms) = << >> THEN << >> ELSE <<ChainNode(Tail(ms))>>)

ChainTree(ms) == IF ms = << >> THEN << >> ELSE << [nodes |-> << ChainNode(ms) >>] >>

Layouts == {"flat", "groups", "nodes", "children", "chain"}

Tree(layout, ms) ==
    CASE layout = "flat"     -> FlatTree(ms)
      [] layout = "groups"   -> GroupTree(ms)
      [] layout = "nodes"    -> NodesTree(ms)
      [] layout = "children" -> ChildrenTree(ms)
      [] layout = "chain"    -> ChainTree(ms)

Permuted(ms, p) == [i \in 1..Len(ms) |-> ms[p[i]]]

Sides == {"left", "right"}

ResolverInit ==
    /\ Parked
    /\ \E ms \in MatchSeqs, l1 \in Layouts, l2 \in Layouts :
       \E p \in Permutations(1..Len(ms)) :
           fn = [left |-> [configurations |-> Tree(l1, ms)],
                 right |-> [configurations |-> Tree(l2, Permuted(ms, p))],
                 result |-> [s \in Sides |-> Null]]

\* cpe_rows = extract_cpe_matches(cve)
ResolveCall(side) ==
    /\ fn.result[side] = Null
    /\ fn' = [fn EXCEPT !.result[side] = Some(extract_cpe_matches(fn[side]))]
    /\ UNCHANGED program

ResolverNext == \E side \in Sides : ResolveCall(side)

ResolverSpec == ResolverInit /\ [][ResolverNext]_vars

\* occurrences of a match entry in the tree
RECURSIVE SeqSum(_)
SeqSum(ns) == IF ns = << >> THEN 0 ELSE Head(ns) + SeqSum(Tail(ns))

RECURSIVE NodeCount(_, _)
NodeCount(node, m) ==
    Cardinality({i \in 1..Len(node.cpeMatch) : node.cpeMatch[i] = m})
    + SeqSum([i \in 1..Len(node.children) |-> NodeCount(node.children[i], m)])

ConfigCount(configurations, m) ==
    SeqSum([i \in 1..Len(configurations) |->
               SeqSum([j \in 1..Len(configurations[i].nodes) |->
                          NodeCount(configurations[i].nodes[j], m)])])

\* the tuple the resolver is to return for a valid identifier of the tree
Association(configurations, criteria) ==
    LET cpe == parse_cpe23(criteria)
    IN  [part |-> cpe[1], vendor |-> cpe[2], product |-> cpe[3], version |-> cpe[4],
         criteria |-> criteria,
         vulnerable |-> \E m \in ConfigMatches(configurations) :
                            Strip(m.criteria) = criteria /\ m.vulnerable]

C24_ResultDependsOnMatchesOnly ==
    (/\ fn.result.left # Null /\ fn.result.right # Null
     /\ \A m \in ResolverMatches :
            ConfigCount(fn.left.configurations, m) = ConfigCount(fn.right.configurations, m))
        => SeqRange(fn.result.left[1]) = SeqRange(fn.result.right[1])

\* three entries nested three levels deep on the left, in three groups and
\* in another order on the right
C24_Witness ==
    LET ms == <<Match(CritB, FALSE), Match(CritA, FALSE), Match(CritA, TRUE)>>
    IN  /\ fn.left.configurations = ChainTree(ms)
        /\ fn.right.configurations = GroupTree(<<ms[3], ms[1], ms[2]>>)
        /\ fn.result.left # Null /\ fn.result.right # Null
        /\ Cardinality(SeqRange(fn.result.left[1])) = 2
        /\ fn.result.left[1] # fn.result.right[1]

(***************************************************************************)
(* split_cpe23 and parse_cpe23 driven on their own                         *)
(***************************************************************************)
\* a:b\:c:d:e:f
CritEscaped == <<"a", ":", "b", "\\", ":", "c", ":", "d", ":", "e", ":", "f">>

\* cpe:2.3:a:\::a: (the vendor is a colon)
CritEscapedVendor == CpePrefix \o <<"a", ":", "\\", ":", ":", "a", ":">>

\* cpe:2.2:
OtherPrefix == <<"c", "p", "e", ":", "2", ".", "2", ":">>

TokenizerChars == {"a", ":", "\\", " "}

\* characters after the prefix
MaxBody == 6

TokenizerBodies == UNION {[1..n -> TokenizerChars] : n \in 0..MaxBody}

TokenizerInputs ==
    {prefix \o body : prefix \in {CpePrefix, OtherPrefix, << >>}, body \in TokenizerBodies}
    \cup {CritEscaped, CritEscapedVendor, CritA, CritB, CritBad}

TokenizerInit ==
    /\ Parked
    /\ \E criteria \in TokenizerInputs :
           fn = [criteria |-> criteria, parts |-> Null, cpe |-> Null]

\* parts = split_cpe23(criteria)
SplitCall ==
    /\ fn.parts = Null
    /\ fn' = [fn EXCEPT !.parts = Some(split_cpe23(fn.criteria))]
    /\ UNCHANGED program

\* cpe = parse_cpe23(criteria)
ParseCall ==
    /\ fn.cpe = Null
    /\ fn' = [fn EXCEPT !.cpe = Some(parse_cpe23(fn.criteria))]
    /\ UNCHANGED program

TokenizerNext == SplitCall \/ ParseCall

TokenizerSpec == TokenizerInit /\ [][TokenizerNext]_vars

Called == fn.parts # Null /\ fn.cpe # Null

Accepted == fn.cpe[1] # Null

\* C25 as stated: an identifier is accepted exactly when tokenization yields
\* at least 6 fields of which the part, vendor and product fields are
\* non-empty.
C25_AcceptedIffSixFields ==
    Called =>
        LET parts == fn.parts[1]
        IN  Accepted <=> /\ Len(parts) >= 6
                         /\ parts[3] # << >> /\ parts[4] # << >> /\ parts[5] # << >>

\* C25 amended: an identifier is accepted exactly when it begins with
\* cpe:2.3:, tokenization yields at least 6 fields, and the part, vendor and
\* product fields are non-empty once surrounding whitespace is removed; the
\* tuple is then made of the stripped fields 3 to 6, vendor and product in
\* lower case.
C25_AcceptedIffPrefixedSixFields ==
    Called =>
        LET parts == fn.parts[1]
        IN  /\ Accepted <=> /\ StartsWith(fn.criteria, CpePrefix)
                            /\ Len(parts) >= 6
                            /\ Strip(parts[3]) # << >>
                            /\ Strip(parts[4]) # << >>
                            /\ Strip(parts[5]) # << >>
            /\ Accepted => fn.cpe[1] = <<Strip(parts[3]), Lower(Strip(parts[4])),
                                         Lower(Strip(parts[5])), Strip(parts[6])>>

\* an accepted identifier whose vendor field is an escaped colon
C25_Witness ==
    /\ Called /\ Accepted
    /\ fn.criteria = CritEscapedVendor
    /\ fn.cpe[1] = << <<"a">>, <<":">>, <<"a">>, << >> >>

\* C26 as stated: tokenizing a:b\:c:d:e:f yields 6 fields, the third of
\* which is b:c.
C26_EscapedColonSixFields ==
    (fn.criteria = CritEscaped /\ fn.parts # Null)
        => /\ Len(fn.parts[1]) = 6
           /\ fn.parts[1][3] = <<"b", ":", "c">>

\* C26 amended: tokenizing a:b\:c:d:e:f yields the 5 fields a, b:c, d, e, f:
\* the escaped colon is kept in the second field, without its backslash, and
\* does not separate.
C26_EscapedColonKeptInField ==
    (fn.criteria = CritEscaped /\ fn.parts # Null)
        => fn.parts[1] = << <<"a">>, <<"b", ":", "c">>, <<"d">>, <<"e">>, <<"f">> >>

C26_Witness ==
    /\ fn.criteria = CritEscaped
    /\ fn.parts # Null
    /\ Len(fn.parts[1]) = 5
    /\ fn.parts[1][2] = <<"b", ":", "c">>

(***************************************************************************)
(* classification.py: the rule-based impact classifier.  A description is  *)
(* a sequence of one-character strings.                                    *)
(***************************************************************************)
IMPACT_TYPE_OPTIONS ==
    << "Remote Code Execution",
      "Authentication Bypass",
      "Privilege Escalation",
      "SQL Injection",
      "Command Injection",
      "Code Injection",
      "Cross-Site Scripting",
      "Path Traversal",
      "Server-Side Request Forgery",
      "Insecure Deserialization",
      "Denial of Service",
      "Information Disclosure",
      "Memory Corruption",
      "Other" >>

Digits == {"0", "1", "2", "3", "4", "5", "6", "7", "8", "9"}

\* the characters \w matches
WordChars == SeqRange(LowerLetters) \cup SeqRange(UpperLetters) \cup Digits \cup {"_"}

\* \b at the gap before text[i] (i = Len(text) + 1: the end of the text)
WordBoundary(text, i) ==
    (i - 1 >= 1 /\ text[i - 1] \in WordChars) # (i <= Len(text) /\ text[i] \in WordChars)

OccursAt(text, keyword, i) ==
    i + Len(keyword) - 1 <= Len(text) /\ SubSeq(text, i, i + Len(keyword) - 1) = keyword

\* keyword in text
Contains(text, keyword) == \E i \in 1..(Len(text) + 1) : OccursAt(text, keyword, i)

\* mutant: the word is searched as a substring, without the word boundaries
SearchWord_Substring(text, word) == Contains(text, word)

\* re.search(r"\bword\b", text)
SearchWord(text, word) ==
    \E i \in 1..(Len(text) + 1) :
        /\ WordBoundary(text, i)
        /\ OccursAt(text, word, i)
        /\ WordBoundary(text, i + Len(word))

Rce == <<"r", "c", "e">>

rules ==
    << [keyword |->
         <<"r", "e", "m", "o", "t", "e", " ", "c", "o", "d", "e", " ", "e", "x", "e", "c", "u", "t", "i", "o", "n">>,
       label |-> "Remote Code Execution"],
      [keyword |->
         <<"a", "u", "t", "h", "e", "n", "t", "i", "c", "a", "t", "i", "o", "n", " ", "b", "y", "p", "a", "s", "s">>,
       label |-> "Authentication Bypass"],
      [keyword |->
         <<"a", "u", "t", "h", " ", "b", "y", "p", "a", "s", "s">>,
       label |-> "Authentication Bypass"],
      [keyword |->
         <<"p", "r", "i", "v", "i", "l", "e", "g", "e", " ", "e", "s", "c", "a", "l", "a", "t", "i", "o", "n">>,
       label |-> "Privilege Escalation"],
      [keyword |->
         <<"s", "q", "l", " ", "i", "n", "j", "e", "c", "t", "i", "o", "n">>,
       label |-> "SQL Injection"],
      [keyword |->
         <<"c", "o", "m", "m", "a", "n", "d", " ", "i", "n", "j", "e", "c", "t", "i", "o", "n">>,
       label |-> "Command Injection"],
      [keyword |->
         <<"c", "o", "d", "e", " ", "i", "n", "j", "e", "c", "t", "i", "o", "n">>,
       label |-> "Code Injection"],
      [keyword |->
         <<"c", "r", "o", "s", "s", "-", "s", "i", "t", "e", " ", "s", "c", "r", "i", "p", "t", "i", "n", "g">>,
       label |-> "Cross-Site Scripting"],
      [keyword |->
         <<"x", "s", "s">>,
       label |-> "Cross-Site Scripting"],
      [keyword |->
         <<"p", "a", "t", "h", " ", "t", "r", "a", "v", "e", "r", "s", "a", "l">>,
       label |-> "Path Traversal"],
      [keyword |->
         <<"d", "i", "r", "e", "c", "t", "o", "r", "y", " ", "t", "r", "a", "v", "e", "r", "s", "a", "l">>,
       label |-> "Path Traversal"],
      [keyword |->
         <<"s", "s", "r", "f">>,
       label |-> "Server-Side Request Forgery"],
      [keyword |->
         <<"r", "e", "q", "u", "e", "s", "t", " ", "f", "o", "r", "g", "e", "r", "y">>,
       label |-> "Server-Side Request Forgery"],
      [keyword |->
         <<"d", "e", "s", "e", "r", "i", "a", "l", "i", "z", "a", "t", "i", "o", "n">>,
       label |-> "Insecure Deserialization"],
      [keyword |->
         <<"d", "e", "n", "i", "a", "l", " ", "o", "f", " ", "s", "e", "r", "v", "i", "c", "e">>,
       label |-> "Denial of Service"],
      [keyword |->
         <<"d", "o", "s">>,
       label |-> "Denial of Service"],
      [keyword |->
         <<"i", "n", "f", "o", "r", "m", "a", "t", "i", "o", "n", " ", "d", "i", "s", "c", "l", "o", "s", "u", "r", "e">>,
       label |-> "Information Disclosure"],
      [keyword |->
         <<"o", "u", "t", "-", "o", "f", "-", "b", "o", "u", "n", "d", "s">>,
       label |-> "Memory Corruption"],
      [keyword |->
         <<"b", "u", "f", "f", "e", "r", " ", "o", "v", "e", "r", "f", "l", "o", "w">>,
       label |-> "Memory Corruption"],
      [keyword |->
         <<"u", "s", "e", "-", "a", "f", "t", "e", "r", "-", "f", "r", "e", "e">>,
       label |-> "Memory Corruption"] >>

\* mutant: no match is labelled Unknown
DefaultLabel_Unknown == "Unknown"

\* return "Other"
DefaultLabel == "Other"

\* mutant: the rule whose keyword occurs first in the text wins
RuleScan_EarliestInText(text, k) ==
    LET hits == {<<i, r>> \in (1..(Len(text) + 1)) \X (1..Len(rules)) :
                    OccursAt(text, rules[r].keyword, i)}
    IN  IF hits = {} THEN DefaultLabel
        ELSE rules[(CHOOSE hit \in hits :
                       \A other \in hits : hit[1] < other[1]
                                           \/ (hit[1] = other[1] /\ hit[2] <= other[2]))[2]].label

\* for keyword, label in rules[k..]: if keyword in text: return label
RECURSIVE RuleScan(_, _)
RuleScan(text, k) ==
    IF k > Len(rules) THEN DefaultLabel
    ELSE IF Contains(text, rules[k].keyword) THEN rules[k].label
    ELSE RuleScan(text, k + 1)

classify_impact_type(description) ==
    LET text == Lower(description)
    IN  IF SearchWord(text, Rce) THEN "Remote Code Execution"
        ELSE RuleScan(text, 1)

(***************************************************************************)
(* classify_impact_type driven on its own                                  *)
(***************************************************************************)
\* Remote buffer overflow leads to RCE via injection
DescriptionLeadsToRce ==
    <<"R", "e", "m", "o", "t", "e", " ", "b", "u", "f", "f", "e", "r", " ", "o",
      "v", "e", "r", "f", "l", "o", "w", " ", "l", "e", "a", "d", "s", " ", "t", "o", " ", "R", "C", "E", " ", "v", "i", "a", " ", "i", "n", "j", "e", "c", "t", "i", "o", "n">>

Fragments ==
    {rules[k].keyword : k \in 1..Len(rules)}
    \cup { << >>, Rce, <<"R", "C", "E">>, <<"X", "S", "S">>, <<"x">>,
           <<"s", "o", "u", "r", "c", "e">>, <<"f", "o", "r", "c", "e">>,
           <<"w", "i", "n", "d", "o", "w", "s">>,
           <<"S", "Q", "L", " ", "I", "n", "j", "e", "c", "t", "i", "o", "n">> }

Separators == { << >>, <<" ">>, <<"_">>, <<"-">> }

Descriptions ==
    {a \o sep \o b : a \in Fragments, sep \in Separators, b \in Fragments}
    \cup {DescriptionLeadsToRce}

ClassifierInit ==
    /\ Parked
    /\ \E description \in Descriptions :
           fn = [description |-> description, impact_type |-> Null]

\* impact_type = classify_impact_type(description)
ClassifyCall ==
    /\ fn.impact_type = Null
    /\ fn' = [fn EXCEPT !.impact_type = Some(classify_impact_type(fn.description))]
    /\ UNCHANGED program

ClassifierNext == ClassifyCall

ClassifierSpec == ClassifierInit /\ [][ClassifierNext]_vars

Classified == fn.impact_type # Null

\* rce occurs with no letter, digit or underscore next to it on either side
RceAsWord(text) ==
    \E i \in 1..Len(text) :
        /\ OccursAt(text, Rce, i)
        /\ i > 1 => text[i - 1] \notin WordChars
        /\ i + 3 <= Len(text) => text[i + 3] \notin WordChars

\* the rules whose keyword occurs in the text
RulesHit(text) == {k \in 1..Len(rules) : Contains(text, rules[k].keyword)}

\* C27: a text holding rce as a whole word (in any letter case) is classified
\* Remote Code Execution whatever rule keywords it holds; a text that holds
\* rce only inside longer words, and not the keyword of the first rule, is
\* not classified Remote Code Execution.
C27_WholeWordRceWins ==
    Classified =>
        LET text == Lower(fn.description)
        IN  /\ RceAsWord(text) => fn.impact_type[1] = "Remote Code Execution"
            /\ (~RceAsWord(text) /\ 1 \notin RulesHit(text))
                   => fn.impact_type[1] # "Remote Code Execution"

\* the example: rce as a word between the keywords of two other rules
C27_Witness ==
    /\ Classified
    /\ fn.description = DescriptionLeadsToRce
    /\ RceAsWord(Lower(fn.description))
    /\ RulesHit(Lower(fn.description)) = {19}
    /\ fn.impact_type[1] = "Remote Code Execution"

Min2(S) == CHOOSE k \in S : \A j \in S : k <= j

\* first position of a keyword in the text
FirstAt(text, keyword) == Min2({i \in 1..Len(text) : OccursAt(text, keyword, i)})

\* C28: a text without a whole-word rce that holds the keyword of some rule
\* is classified with the label of the first such rule of the list, wherever
\* the keywords stand in the text.
C28_FirstRuleInListWins ==
    (Classified /\ ~RceAsWord(Lower(fn.description)) /\ RulesHit(Lower(fn.description)) # {})
        => fn.impact_type[1] = rules[Min2(RulesHit(Lower(fn.description)))].label

\* the keyword of a later rule stands before the keyword of the winning rule
C28_Witness ==
    LET text == Lower(fn.description)
    IN  /\ Classified
        /\ ~RceAsWord(text)
        /\ RulesHit(text) = {5, 15}
        /\ FirstAt(text, rules[15].keyword) < FirstAt(text, rules[5].keyword)
        /\ fn.impact_type[1] = "SQL Injection"

\* C29: the result is one of the 14 values of IMPACT_TYPE_OPTIONS, and it is
\* Other exactly when the text holds neither rce as a whole word nor the
\* keyword of any rule; the empty description is classified Other.
C29_ClosedEnumerationOtherByDefault ==
    /\ Cardinality(SeqRange(IMPACT_TYPE_OPTIONS)) = 14
    /\ Classified =>
           LET text == Lower(fn.description)
           IN  /\ fn.impact_type[1] \in SeqRange(IMPACT_TYPE_OPTIONS)
               /\ fn.impact_type[1] = "Other" <=> (~RceAsWord(text) /\ RulesHit(text) = {})
               /\ fn.description = << >> => fn.impact_type[1] = "Other"

C29_Witness ==
    /\ Classified
    /\ fn.description = << >>
    /\ fn.impact_type[1] = "Other"

(***************************************************************************)
(* extract_cvss driven on its own                                          *)
(***************************************************************************)
Metric(baseScore, dataSeverity, baseSeverity) ==
    [cvssData |-> [baseScore |-> baseScore, baseSeverity |-> dataSeverity],
     baseSeverity |-> baseSeverity]

\* the metrics a bucket may hold first: score, cvssData-level severity and
\* metric-level severity each present or not, all distinct between buckets
Metrics(score, severity) ==
    { Metric(s, d, b) : s \in {Null, Some(score)},
                        d \in {Null, Some(""), Some(severity)},
                        b \in {Null, Some(severity \o "-METRIC")} }

Primary == Metric(Some(0), Some("NONE"), Null)

\* the lists a bucket may hold: none, one metric, or a metric before another
Buckets(score, severity) ==
    { << >> } \cup { <<m>> : m \in Metrics(score, severity) }
              \cup { <<m, Primary>> : m \in {Metric(Some(score), Null, Null)} }

MetricsChoices ==
    { [cvssMetricV31 |-> a, cvssMetricV30 |-> b, cvssMetricV2 |-> c] :
          a \in Buckets(98, "CRITICAL"), b \in Buckets(75, "HIGH"), c \in Buckets(50, "MEDIUM") }

ExtractorInit ==
    /\ Parked
    /\ \E metrics \in MetricsChoices : fn = [cve |-> [metrics |-> metrics], cvss |-> Null]

\* score, version, severity = extract_cvss(cve)
ExtractCvssCall ==
    /\ fn.cvss = Null
    /\ fn' = [fn EXCEPT !.cvss = Some(extract_cvss(fn.cve))]
    /\ UNCHANGED program

ExtractorNext == ExtractCvssCall

ExtractorSpec == ExtractorInit /\ [][ExtractorNext]_vars

Present(v) == v # Null /\ v # Some("")

\* C30: with no non-empty bucket the result is (null, null, null); otherwise
\* the version tag is that of the first non-empty bucket in the order 3.1,
\* 3.0, 2.0, the score is the baseScore of that bucket's first metric (null
\* if it has none), and the severity is that metric's cvssData-level
\* baseSeverity or, failing that, its metric-level one; the result is
\* (null, null, null) only when every bucket is empty.
C30_CvssOfFirstNonEmptyBucket ==
    fn.cvss # Null =>
        LET metrics == fn.cve.metrics
            result  == fn.cvss[1]
            v31     == metrics.cvssMetricV31
            v30     == metrics.cvssMetricV30
            v2      == metrics.cvssMetricV2
            bucket  == IF v31 # << >> THEN v31 ELSE IF v30 # << >> THEN v30 ELSE v2
            version == IF v31 # << >> THEN "3.1" ELSE IF v30 # << >> THEN "3.0" ELSE "2.0"
        IN  /\ (result = <<Null, Null, Null>>) <=> (v31 = << >> /\ v30 = << >> /\ v2 = << >>)
            /\ bucket # << >> =>
                   /\ result[2] = Some(version)
                   /\ result[1] = bucket[1].cvssData.baseScore
                   /\ result[3] = IF Present(bucket[1].cvssData.baseSeverity)
                                  THEN bucket[1].cvssData.baseSeverity
                                  ELSE bucket[1].baseSeverity

\* no 3.1 bucket; the 3.0 metric has no score and only a metric-level
\* severity; the 2.0 bucket holds both: nothing is taken from 2.0
C30_Witness ==
    /\ fn.cvss # Null
    /\ fn.cve.metrics.cvssMetricV31 = << >>
    /\ fn.cve.metrics.cvssMetricV30 = << Metric(Null, Null, Some("HIGH-METRIC")) >>
    /\ fn.cve.metrics.cvssMetricV2 = << Metric(Some(50), Some("MEDIUM"), Null) >>
    /\ fn.cvss[1] = <<Null, Some("3.0"), Some("HIGH-METRIC")>>

(***************************************************************************)
(* Lines 225-242 of upsert_cves driven on their own: the description, its  *)
(* classification, and the row written with it                             *)
(***************************************************************************)
Description(lang, value) == [lang |-> lang, value |-> value]

DescriptionEntries ==
    { Description("en", Some(rules[5].keyword)), Description("en", Some(rules[9].keyword)),
      Description("es", Some(Rce)), Description("fr", Some(rules[15].keyword)),
      Description("EN", Some(rules[19].keyword)), Description("en", Null) }

\* entries per description list
MaxDescriptions == 3

DescriptionLists == UNION {[1..n -> DescriptionEntries] : n \in 0..MaxDescriptions}

\* the row of this id stored by an earlier upsert
EarlierRow == [id |-> "CVE-1", impact_type |-> "Memory Corruption", classification_version |-> "v1"]

DescriberInit ==
    /\ Parked
    /\ \E descriptions \in DescriptionLists :
           fn = [cve |-> [id |-> "CVE-1", descriptions |-> descriptions],
                 description |-> Null, impact_type |-> Null, table |-> {EarlierRow}]

\* description = extract_english_description_from_cve(cve)
DescribeCall ==
    /\ fn.description = Null
    /\ fn' = [fn EXCEPT !.description = Some(extract_english_description_from_cve(fn.cve))]
    /\ UNCHANGED program

\* impact_type = classify_impact_type(description)
ClassifyDescriptionCall ==
    /\ fn.description # Null /\ fn.impact_type = Null
    /\ fn' = [fn EXCEPT !.impact_type = Some(classify_impact_type(fn.description[1]))]
    /\ UNCHANGED program

\* cur.execute(upsert_sql, (cve_id, ..., impact_type, IMPACT_CLASSIFICATION_VERSION, ...))
UpsertClassifiedCall ==
    /\ fn.impact_type # Null
    /\ fn.table = {EarlierRow}
    /\ fn' = [fn EXCEPT !.table = InsertCveOnConflict(@, [id |-> fn.cve.id,
                                      impact_type |-> fn.impact_type[1],
                                      classification_version |-> "v1"])]
    /\ UNCHANGED program

DescriberNext == DescribeCall \/ ClassifyDescriptionCall \/ UpsertClassifiedCall

DescriberSpec == DescriberInit /\ [][DescriberNext]_vars

EnglishEntries(descriptions) == {k \in 1..Len(descriptions) : descriptions[k].lang = "en"}

\* C31: the description is the value of the first entry tagged en (the empty
\* text if that entry has no value), whatever entries precede it, and the
\* empty text when no entry is tagged en; the row is written with the
\* classification of that description, which is Other when no entry is
\* tagged en.
C31_FirstEnglishDescription ==
    LET descriptions == fn.cve.descriptions
        en           == EnglishEntries(descriptions)
        first        == descriptions[Min2(en)]
        expected     == IF en = {} \/ first.value = Null THEN << >> ELSE first.value[1]
    IN  /\ fn.description # Null => fn.description[1] = expected
        /\ fn.impact_type # Null =>
               /\ fn.impact_type[1] = classify_impact_type(expected)
               /\ en = {} => fn.impact_type[1] = "Other"
        /\ fn.table # {EarlierRow} =>
               /\ \A r \in fn.table : r.id = "CVE-1" /\ r.impact_type = fn.impact_type[1]
               /\ en = {} => fn.table = {[id |-> "CVE-1", impact_type |-> "Other",
                                          classification_version |-> "v1"]}

\* a Spanish entry holding rce before the English one
C31_Witness ==
    /\ fn.cve.descriptions = << Description("es", Some(Rce)),
                                Description("en", Some(rules[5].keyword)) >>
    /\ fn.description = Some(rules[5].keyword)
    /\ fn.table = {[id |-> "CVE-1", impact_type |-> "SQL Injection", classification_version |-> "v1"]}

(***************************************************************************)
(* subtract_years_safe driven on its own                                   *)
(***************************************************************************)
LookbackYears == {0, 1, 2, 4, 5, 24, 124}

LookbackDates ==
    { c \in [year : {2016, 2023, 2024, 2100}, month : {1, 2, 3, 6, 12},
             day : {1, 28, 29, 30, 31}, hour : {0, 12, 23}] :
          ValidDate(c.year, c.month, c.day) }

LookbackInit ==
    /\ Parked
    /\ \E c \in LookbackDates, years \in LookbackYears :
           fn = [value |-> FromCivil(c.year, c.month, c.day, c.hour), years |-> years,
                 start |-> Null]

\* start = subtract_years_safe(end, settings.initial_lookback_years)
SubtractYearsCall ==
    /\ fn.start = Null
    /\ fn' = [fn EXCEPT !.start = Some(subtract_years_safe(fn.value, fn.years))]
    /\ UNCHANGED program

LookbackNext == SubtractYearsCall

LookbackSpec == LookbackInit /\ [][LookbackNext]_vars

\* C32: the result has the month, day and hour of the argument in the year
\* N earlier, except that Feb 29 becomes Feb 28 when that year is not a leap
\* year.
C32_SameDateYearsEarlier ==
    fn.start # Null =>
        LET c == ToCivil(fn.value)
            r == ToCivil(fn.start[1])
        IN  /\ r.year = c.year - fn.years
            /\ r.hour = c.hour
            /\ IF c.month = 2 /\ c.day = 29 /\ ~IsLeap(c.year - fn.years)
               THEN r.month = 2 /\ r.day = 28
               ELSE r.month = c.month /\ r.day = c.day

\* Feb 29, 2024 minus 1 year is Feb 28, 2023
C32_Witness ==
    /\ fn.value = FromCivil(2024, 2, 29, 12)
    /\ fn.years = 1
    /\ fn.start = Some(FromCivil(2023, 2, 28, 12))
    /\ ToCivil(fn.start[1]) = [year |-> 2023, month |-> 2, day |-> 28, hour |-> 12]

\* the parameters of the page request about to be issued
CurrentParams == RequestParams(run.settings, win.start_index, win.start, win.end, run.mode)

PubPair == {"pubStartDate", "pubEndDate"}

LastModPair == {"lastModStartDate", "lastModEndDate"}

\* C33: whenever a page request is about to be issued, its parameters hold
\* the page size, the offset and one date-bound pair: the publish-date pair
\* in a backfill run, the last-modified pair in an incremental run; the pair
\* denotes the start and the end of the window being fetched.
C33_OneDateBoundPair ==
    pc = "request" =>
        LET params == CurrentParams
            window == Last(h.spans)
        IN  /\ run.mode \in {"initial", "incremental"}
            /\ run.mode = "initial" =>
                   /\ DOMAIN params = {"resultsPerPage", "startIndex"} \cup PubPair
                   /\ parse_nvd_ts(params.pubStartDate) = window[1]
                   /\ parse_nvd_ts(params.pubEndDate) = window[2]
            /\ run.mode = "incremental" =>
                   /\ DOMAIN params = {"resultsPerPage", "startIndex"} \cup LastModPair
                   /\ parse_nvd_ts(params.lastModStartDate) = window[1]
                   /\ parse_nvd_ts(params.lastModEndDate) = window[2]
            /\ window = <<run.cursor, ChunkWindowEnd(run.cursor, run.end,
                                                     run.settings.incremental_window_days)>>

\* the request for the second page of the second window of a backfill run
C33_Witness ==
    /\ pc = "request"
    /\ run.mode = "initial"
    /\ Len(h.spans) = 2
    /\ win.start_index = 1
    /\ DOMAIN CurrentParams \cap (PubPair \cup LastModPair) = PubPair
    /\ CurrentParams.pubStartDate = to_nvd_ts(run.start + 200 * HoursPerDay)

\* C34: a job row is inserted once per run, with status running and the
\* run's start and end as its window, when no window has been begun and no
\* request issued in that run; whenever a request is about to be issued or
\* has been issued, the run's job exists with that window.
C34_JobCreatedBeforeFetching ==
    /\ [][ ingest_job_log' # ingest_job_log /\ Len(ingest_job_log') # Len(ingest_job_log) =>
             LET job == ingest_job_log'[Len(ingest_job_log')]
             IN  /\ Len(ingest_job_log') = Len(ingest_job_log) + 1
                 /\ SubSeq(ingest_job_log', 1, Len(ingest_job_log)) = ingest_job_log
                 /\ run'.job_id = Len(ingest_job_log')
                 /\ job.status = "running"
                 /\ job.job_type = (IF run'.mode = "initial" THEN "initial_lookback"
                                    ELSE "daily_sync")
                 /\ job.window_start = run'.start /\ job.window_end = run'.end
                 /\ h'.spans = << >> /\ h'.call = NoCall /\ h'.received = 0
                 /\ pc' = "windows" ]_vars
    /\ []( (pc \in {"request", "upsert", "unwind"} \/ h.spans # << >> \/ h.call # NoCall)
             => /\ JobCreated
                /\ run.job_id = Len(ingest_job_log)
                /\ CurrentJob.window_start = run.start
                /\ CurrentJob.window_end = run.end
                /\ pc = "request" => CurrentJob.status = "running" )

\* the first request of a backfill run of two windows is about to be issued
C34_Witness ==
    /\ pc = "request" /\ run.mode = "initial"
    /\ Len(h.spans) = 1 /\ h.call = NoCall /\ win.start_index = 0
    /\ Len(PlannedWindows) = 2
    /\ CurrentJob.status = "running"
    /\ CurrentJob.window_start = win.start
    /\ CurrentJob.window_end = run.end
    /\ CurrentJob.window_end > win.end

\* the integrity conditions of the two tables
OneRowPerId(cveTable) ==
    \A r1, r2 \in cveTable : r1.id = r2.id => r1 = r2

OneRowPerPair(cpeTable) ==
    \A r1, r2 \in cpeTable : (r1.cve_id = r2.cve_id /\ r1.criteria = r2.criteria) => r1 = r2

AssociationsReferToRows(cveTable, cpeTable) ==
    \A a \in cpeTable : \E r \in cveTable : r.id = a.cve_id

\* C35: the committed tables, and the tables as the open transaction sees
\* them, hold at most one cve row per id, at most one cve_cpe row per
\* (cve_id, criteria), and only cve_cpe rows whose cve_id is the id of a cve row.
C35_StoreIntegrity ==
    /\ OneRowPerId(cve) /\ OneRowPerPair(cve_cpe) /\ AssociationsReferToRows(cve, cve_cpe)
    /\ txn.open => /\ OneRowPerId(txn.cve) /\ OneRowPerPair(txn.cve_cpe)
                   /\ AssociationsReferToRows(txn.cve, txn.cve_cpe)

\* a page was aborted with uncommitted changes after an id had been committed
\* a second time, and the id has two associations
C35_Witness ==
    /\ h.abortedDirty
    /\ \E id \in Ids : /\ h.ingests[id] >= 2
                       /\ Cardinality(CveRowsOf(id)) = 1
                       /\ Cardinality(CpeRowsOf(id)) >= 2
    /\ Cardinality(cve) >= 2

\* the character at position i is escaped: a backslash that is not itself
\* escaped stands immediately before it
RECURSIVE EscapedAt(_, _)
EscapedAt(criteria, i) ==
    i > 1 /\ criteria[i - 1] = "\\" /\ ~EscapedAt(criteria, i - 1)

UnescapedColons(criteria) ==
    {i \in 1..Len(criteria) : criteria[i] = ":" /\ ~EscapedAt(criteria, i)}

\* the characters that end up in a field: the escaped ones, and the unescaped
\* ones that are neither a backslash nor a colon
KeptAt(criteria, i) == EscapedAt(criteria, i) \/ criteria[i] \notin {"\\", ":"}

FieldAt(criteria, i) == 1 + Cardinality({j \in UnescapedColons(criteria) : j < i})

FieldText(criteria, k) ==
    LET positions == SelectSeq([i \in 1..Len(criteria) |-> i],
                               LAMBDA i : KeptAt(criteria, i) /\ FieldAt(criteria, i) = k)
    IN  [n \in 1..Len(positions) |-> criteria[positions[n]]]

\* C36: split_cpe23 returns 1 + (number of unescaped colons) fields; field k
\* is made of the characters between the (k-1)th and the kth unescaped colon,
\* with every escaped character (a colon or a backslash included) kept and
\* every escaping backslash removed.
C36_FieldsSplitAtUnescapedColons ==
    fn.parts # Null =>
        LET parts == fn.parts[1] IN
        /\ Len(parts) = 1 + Cardinality(UnescapedColons(fn.criteria))
        /\ \A k \in 1..Len(parts) : parts[k] = FieldText(fn.criteria, k)

\* an escaped backslash is followed by a colon that splits, and an escaped
\* colon stays in its field
C36_Witness ==
    /\ fn.parts # Null
    /\ \E i \in 1..(Len(fn.criteria) - 1) :
           /\ fn.criteria[i] = "\\" /\ EscapedAt(fn.criteria, i)
           /\ fn.criteria[i + 1] = ":" /\ i + 1 \in UnescapedColons(fn.criteria)
    /\ \E j \in 1..Len(fn.criteria) : fn.criteria[j] = ":" /\ EscapedAt(fn.criteria, j)
    /\ \E k \in 1..Len(fn.parts[1]) :
           \E n \in 1..Len(fn.parts[1][k]) : fn.parts[1][k][n] = ":"
    /\ Len(fn.parts[1]) < 1 + Cardinality({i \in 1..Len(fn.criteria) : fn.criteria[i] = ":"})

\* the rows of the two tables that do not belong to id
OtherRows(t, id) ==
    [cve |-> {r \in t.cve : r.id # id}, cve_cpe |-> {r \in t.cve_cpe : r.cve_id # id}]

\* C37: a step of the upsert loop on the document with id X, completed or
\* raising, leaves the transaction's cve rows and cve_cpe rows of every other
\* id as they were, and does not touch the committed tables.
C37_UpsertTouchesOneIdOnly ==
    [][ (pc = "upsert" /\ page.idx <= Len(page.vulnerabilities)) =>
            /\ txn'.open => OtherRows(txn', CurrentItem.id) = OtherRows(txn, CurrentItem.id)
            /\ cve' = cve /\ cve_cpe' = cve_cpe ]_vars

\* the document just upserted has no association left, its committed
\* associations are deleted in the transaction, and the other id keeps its
\* row and its associations
C37_Witness ==
    /\ pc = "upsert" /\ page.idx > 1 /\ txn.open
    /\ LET X == page.vulnerabilities[page.idx - 1] IN
       /\ X.id # "" /\ extract_cpe_matches(X) = << >>
       /\ CpeRowsOf(X.id) # {}
       /\ {r \in txn.cve_cpe : r.cve_id = X.id} = {}
       /\ \E r \in txn.cve : r.id = X.id /\ r.raw = X
       /\ OtherRows(txn, X.id).cve # {} /\ OtherRows(txn, X.id).cve_cpe # {}
       /\ OtherRows(txn, X.id) = OtherRows([cve |-> cve, cve_cpe |-> cve_cpe], X.id)

\* the checkpoint stored before the first invocation: the end instant of the
\* successful incremental run that wrote it, if there was one
InitialCheckpoint ==
    get_checkpoint(IF h.runs <= 1 THEN h.begin.checkpoint ELSE h.prev.checkpoint)

SuccessfulBefore(j) ==
    {k \in 1..(j - 1) : /\ ingest_job_log[k].job_type = "daily_sync"
                        /\ ingest_job_log[k].status = "success"}

\* the end instant of the most recent successful incremental run before job j
LastSuccessEnd(j) ==
    IF SuccessfulBefore(j) = {} THEN InitialCheckpoint
    ELSE Some(ingest_job_log[CHOOSE k \in SuccessfulBefore(j) :
                                 \A m \in SuccessfulBefore(j) : m <= k].window_end)

\* C38: the span of every incremental run starts at or before the end instant
\* of the most recent successful incremental run before it, so no interval
\* between two successful runs is left out.
C38_SpanStartsWithinLastSuccess ==
    \A j \in 1..Len(ingest_job_log) :
        (ingest_job_log[j].job_type = "daily_sync" /\ LastSuccessEnd(j) # Null)
            => ingest_job_log[j].window_start <= LastSuccessEnd(j)[1]

(***************************************************************************)
(* Runs without a window: INCREMENTAL_WINDOW_DAYS is read with int() and   *)
(* may be negative; without a stored checkpoint the span of an incremental *)
(* run then starts after its end and chunk_ranges yields nothing           *)
(***************************************************************************)
NoWindowSettings ==
    { [initial_lookback_years |-> 1, incremental_window_days |-> -1,
       nvd_results_per_page |-> 2] }

RunIncrementalNoWindow ==
    \E settings \in NoWindowSettings :
        /\ get_checkpoint(ingest_checkpoint) = Null
        /\ RunIncrementalBegin(settings)

NoWindowNext == Next \/ RunIncrementalNoWindow

NoWindowSpec == Init /\ [][NoWindowNext]_vars

\* C39: the clock never goes back, and under it no step lowers or removes
\* the stored checkpoint, which is never ahead of the clock; a run without a
\* window stores its end like any other run.
C39_CheckpointNeverDecreases ==
    /\ [][ /\ clock' >= clock
           /\ LET old == get_checkpoint(ingest_checkpoint)
                  new == get_checkpoint(ingest_checkpoint')
              IN  /\ old # Null => (new # Null /\ new[1] >= old[1])
                  /\ new # old => (new = Some(run.end) /\ run.mode = "incremental") ]_vars
    /\ [](get_checkpoint(ingest_checkpoint) # Null
            => get_checkpoint(ingest_checkpoint)[1] <= clock)

\* an incremental run whose start is not before its end fetched no window,
\* returned, and the checkpoint is its end
C39_Witness ==
    /\ RunEnded /\ run.mode = "incremental" /\ outcome.kind = "returned"
    /\ run.start >= run.end
    /\ h.spans = << >>
    /\ CurrentJob.status = "success"
    /\ get_checkpoint(h.begin.checkpoint) = Null
    /\ get_checkpoint(ingest_checkpoint) = Some(run.end)

(***************************************************************************)
(* utils/backfill_cpe_from_raw.py main(): cve_cpe re-derived from cve.raw, *)
(* run on the tables an ingestion left.  The documents of the model are    *)
(* the "cve" members of the items, so raw.get("cve") is the stored raw.    *)
(***************************************************************************)
\* ids ascend in the order of the SELECT ... ORDER BY id; "" is below all
IdRank(id) ==
    CASE id = "" -> 0 [] id = "CVE-1" -> 1 [] id = "CVE-2" -> 2 [] id = "CVE-3" -> 3

\* SELECT id, raw FROM cve WHERE id > last_id ORDER BY id LIMIT batch_size
RECURSIVE SelectBatch(_, _, _)
SelectBatch(cveTable, last_id, batch_size) ==
    LET above == {r \in cveTable : IdRank(r.id) > IdRank(last_id)}
    IN  IF batch_size = 0 \/ above = {} THEN << >>
        ELSE LET first == CHOOSE r \in above : \A o \in above : IdRank(r.id) <= IdRank(o.id)
             IN  <<first>> \o SelectBatch(cveTable, first.id, batch_size - 1)

\* the body of the loop over the rows of a batch: DELETE, then INSERT if cpe_rows
BackfillRow(cpeTable, row) ==
    LET cpe_rows == backfill_extract_cpe_matches(row.raw)
        deleted  == DeleteCpe(cpeTable, row.id)
    IN  IF cpe_rows = << >> THEN deleted
        ELSE InsertCpeOnConflict(deleted, CpeRows(row.id, cpe_rows))

RECURSIVE BackfillRows(_, _)
BackfillRows(cpeTable, rows) ==
    IF rows = << >> THEN cpeTable
    ELSE BackfillRows(BackfillRow(cpeTable, Head(rows)), Tail(rows))

RECURSIVE WrittenBy(_)
WrittenBy(rows) ==
    IF rows = << >> THEN 0
    ELSE Len(backfill_extract_cpe_matches(Head(rows).raw)) + WrittenBy(Tail(rows))

\* --batch-size
BatchSizes == {1, 2}

\* the tables after an earlier ingestion of CVE-2
EarlierStore == UpsertStatements(Store({}, {}), Doc2, FirstNow - Schedule[1], "none")

BackfillDocs ==
    { Doc(id, Doc1.published, Doc1.lastModified, Tree(layout, ms)) :
          id \in {"CVE-1", "CVE-2"}, layout \in Layouts, ms \in MatchSeqs }

BackfillInit ==
    /\ Parked
    /\ \E doc \in BackfillDocs, batch_size \in BatchSizes :
           fn = [cve |-> doc, store |-> EarlierStore, batch_size |-> batch_size,
                 step |-> "ingest", last_id |-> "", processed |-> 0, written |-> 0]

\* upsert_cves on the document, committed
IngestCall ==
    /\ fn.step = "ingest"
    /\ fn' = [fn EXCEPT !.store = UpsertStatements(@, fn.cve, clock, "none"),
                        !.step = "backfill"]
    /\ UNCHANGED program

\* one round of the while loop with rows: every row re-derived, then commit
BackfillBatch ==
    LET rows == SelectBatch(fn.store.cve, fn.last_id, fn.batch_size)
    IN  /\ fn.step = "backfill"
        /\ rows # << >>
        /\ fn' = [fn EXCEPT !.store.cve_cpe = BackfillRows(@, rows),
                            !.last_id = rows[Len(rows)].id,
                            !.processed = @ + Len(rows),
                            !.written = @ + WrittenBy(rows)]
        /\ UNCHANGED program

\* if not rows: break
BackfillBreak ==
    /\ fn.step = "backfill"
    /\ SelectBatch(fn.store.cve, fn.last_id, fn.batch_size) = << >>
    /\ fn' = [fn EXCEPT !.step = "done"]
    /\ UNCHANGED program

\* a statement of the round raises: conn.close() discards the open batch
BackfillRaises ==
    /\ fn.step = "backfill"
    /\ fn' = [fn EXCEPT !.step = "raised"]
    /\ UNCHANGED program

BackfillNext == IngestCall \/ BackfillBatch \/ BackfillBreak \/ BackfillRaises

BackfillSpec == BackfillInit /\ [][BackfillNext]_vars

\* the tables as the ingestion of the document leaves them
Ingested == UpsertStatements(EarlierStore, fn.cve, clock, "none")

\* C40: the copy of the resolver returns what extract_cpe_matches returns,
\* for the document and for the raw of every stored row; after the ingestion,
\* every round of the backfill leaves both tables as the ingestion left them.
C40_BackfillKeepsAssociations ==
    /\ backfill_extract_cpe_matches(fn.cve) = extract_cpe_matches(fn.cve)
    /\ \A r \in fn.store.cve : backfill_extract_cpe_matches(r.raw) = extract_cpe_matches(r.raw)
    /\ fn.step # "ingest" => fn.store = Ingested

\* the backfill went through both rows, one per round, and wrote the merged
\* association of a padded, repeated identifier again
C40_Witness ==
    /\ fn.step = "done" /\ fn.batch_size = 1
    /\ fn.processed = 2 /\ fn.written = 3 /\ fn.last_id = "CVE-2"
    /\ fn.cve.id = "CVE-1"
    /\ fn.cve.configurations
           = ChainTree(<<Match(CritAPadded, TRUE), Match(CritA, FALSE), Match(CritB, FALSE)>>)
    /\ \E a \in fn.store.cve_cpe : a.cve_id = "CVE-1" /\ a.criteria = CritA /\ a.vulnerable
    /\ \E a \in fn.store.cve_cpe : a.cve_id = "CVE-1" /\ a.criteria = CritB /\ ~a.vulnerable
    /\ \E a \in fn.store.cve_cpe : a.cve_id = "CVE-2"

====
